---- MODULE Spec2Model ----
(***************************************************************************)
(* A model of the bounding-box and bounding-volume-hierarchy code of the   *)
(* raymart ray tracer (src/src/hit.rs, src/src/bvh.rs, src/src/bbox.rs,    *)
(* src/src/ray.rs).                                                        *)
(*                                                                         *)
(* Numbers.  The code computes in IEEE-754 binary floating point.  The     *)
(* model keeps the shape of that arithmetic with a short mantissa: a       *)
(* number is an integer count of grid units, every integer of magnitude    *)
(* below MaxExact is representable, above it the spacing doubles with      *)
(* every binade, and every arithmetic result is rounded to the nearest     *)
(* representable value, ties to even (Fl).  +infinity and -infinity are    *)
(* the two values Inf and -Inf, with saturating arithmetic.  NaN is not    *)
(* modelled: rays have no zero direction component and no operation of     *)
(* the model subtracts equal infinities.                                   *)
(*                                                                         *)
(* Lengths and ray distances share the grid unit.  Input coordinates are   *)
(* even, the direction components of rays are +-1 and +-2 (whose           *)
(* reciprocals are exact in binary floating point), so the product with    *)
(* the reciprocal direction is an exact division.                          *)
(***************************************************************************)
EXTENDS Integers, Sequences, FiniteSets, TLC

(***************************************************************************)
(* Floating point                                                          *)
(***************************************************************************)

\* f64::INFINITY; every finite value of the model is far smaller.
Inf == 1000000

\* Integers of magnitude below MaxExact are all representable (2^mantissa).
MaxExact == 32

\* delta of pad_to_minimum (0.0001 in the code), in grid units.
Delta == 4

\* F applied to the value of x: x is evaluated once, as an argument is in
\* the code.
ByValue(F(_), x) == CHOOSE y \in {F(v) : v \in {x}} : TRUE

Abs(x) == IF x < 0 THEN -x ELSE x

RECURSIVE Ulp(_)
\* Spacing of the representable values around the magnitude a >= 0.
Ulp(a) == IF a < MaxExact THEN 1 ELSE 2 * Ulp(a \div 2)

\* Round the magnitude a >= 0 to the nearest representable, ties to even.
RoundPos(a) ==
  ByValue(LAMBDA u :
            ByValue(LAMBDA lo :
                      IF 2 * (a - lo) < u THEN lo
                      ELSE IF 2 * (a - lo) > u THEN lo + u
                      ELSE IF (lo \div u) % 2 = 0 THEN lo ELSE lo + u,
                    (a \div u) * u),
          Ulp(a))

\* The floating-point result of an operation whose exact result is x.
Fl(x) ==
  ByValue(LAMBDA v :
            IF v >= Inf THEN Inf
            ELSE IF v <= -Inf THEN -Inf
            ELSE IF v >= 0 THEN RoundPos(v) ELSE -RoundPos(-v),
          x)

\* a + b
FAdd(a, b) ==
  IF a >= Inf \/ b >= Inf THEN Inf
  ELSE IF a <= -Inf \/ b <= -Inf THEN -Inf
  ELSE Fl(a + b)

\* a - b
FSub(a, b) == FAdd(a, -b)

\* a * b for finite b
FMul(a, b) ==
  IF b = 0 THEN 0
  ELSE IF a >= Inf THEN (IF b > 0 THEN Inf ELSE -Inf)
  ELSE IF a <= -Inf THEN (IF b > 0 THEN -Inf ELSE Inf)
  ELSE Fl(a * b)

\* a * (1.0 / d) for a direction component d in {-2, -1, 1, 2}
FMulInv(a, d) ==
  IF a >= Inf THEN (IF d > 0 THEN Inf ELSE -Inf)
  ELSE IF a <= -Inf THEN (IF d > 0 THEN -Inf ELSE Inf)
  ELSE IF d > 0 THEN Fl(a \div d) ELSE Fl(-(a \div (-d)))

\* f32::min and f32::max, fast_min and fast_max (no NaN in the model)
FMin(a, b) == IF a < b THEN a ELSE b
FMax(a, b) == IF a > b THEN a ELSE b

(***************************************************************************)
(* Interval (src/src/hit.rs)                                               *)
(***************************************************************************)

Interval_new(lo, hi) == [min |-> lo, max |-> hi]

Interval_EMPTY == Interval_new(Inf, -Inf)
Interval_UNIVERSE == Interval_new(-Inf, Inf)

\* Interval::new_enclosing with the comparison of the maxima turned round.
Interval_new_enclosing_least_max(a, b) ==
  [min |-> IF a.min <= b.min THEN a.min ELSE b.min,
   max |-> IF a.max <= b.max THEN a.max ELSE b.max]

Interval_new_enclosing(a, b) ==
  [min |-> IF a.min <= b.min THEN a.min ELSE b.min,
   max |-> IF a.max >= b.max THEN a.max ELSE b.max]

Interval_size(s) == FSub(s.max, s.min)

Interval_contains(s, x) == s.min <= x /\ x <= s.max

Interval_surrounds(s, x) == s.min < x /\ x < s.max

Interval_expand(s, delta) ==
  LET padding == delta \div 2
  IN  Interval_new(FSub(s.min, padding), FAdd(s.max, padding))

Interval_add(s, rhs) == Interval_new(FAdd(s.min, rhs), FAdd(s.max, rhs))

(***************************************************************************)
(* AABBox (src/src/bvh.rs)                                                 *)
(***************************************************************************)

\* An axis interval is padded when it is thinner than delta; the SIMD
\* vectors are then filled from the three intervals.
pad_axis(s) ==
  ByValue(LAMBDA v : IF Interval_size(v) < Delta THEN Interval_expand(v, Delta) ELSE v, s)

pad_to_minimum(bx) ==
  ByValue(LAMBDA p :
            [x |-> p[1], y |-> p[2], z |-> p[3],
             min |-> <<p[1].min, p[2].min, p[3].min, 0>>,
             max |-> <<p[1].max, p[2].max, p[3].max, 0>>],
          <<pad_axis(bx.x), pad_axis(bx.y), pad_axis(bx.z)>>)

RawBox(x, y, z) ==
  [x |-> x, y |-> y, z |-> z, min |-> <<0, 0, 0, 0>>, max |-> <<0, 0, 0, 0>>]

AABBox_new(x, y, z) == pad_to_minimum(RawBox(x, y, z))

\* #[derive(Default)]: three default intervals (Interval::EMPTY) and zero
\* SIMD vectors, with no padding.
AABBox_default == RawBox(Interval_EMPTY, Interval_EMPTY, Interval_EMPTY)

AABBox_EMPTY == AABBox_new(Interval_EMPTY, Interval_EMPTY, Interval_EMPTY)
AABBox_UNIVERSE == AABBox_new(Interval_UNIVERSE, Interval_UNIVERSE, Interval_UNIVERSE)

AABBox_new_enclosing(a, b) ==
  pad_to_minimum(RawBox(Interval_new_enclosing(a.x, b.x),
                        Interval_new_enclosing(a.y, b.y),
                        Interval_new_enclosing(a.z, b.z)))

AABBox_new_from_points(a, b) ==
  LET x1 == IF a[1] <= b[1] THEN a[1] ELSE b[1]
      x2 == IF a[1] <= b[1] THEN b[1] ELSE a[1]
      y1 == IF a[2] <= b[2] THEN a[2] ELSE b[2]
      y2 == IF a[2] <= b[2] THEN b[2] ELSE a[2]
      z1 == IF a[3] <= b[3] THEN a[3] ELSE b[3]
      z2 == IF a[3] <= b[3] THEN b[3] ELSE a[3]
  IN  pad_to_minimum(RawBox(Interval_new(x1, x2), Interval_new(y1, y2),
                            Interval_new(z1, z2)))

AABBox_expand(bx, delta) ==
  AABBox_new(Interval_expand(bx.x, delta), Interval_expand(bx.y, delta),
             Interval_expand(bx.z, delta))

AABBox_add(bx, rhs) ==
  AABBox_new(Interval_add(bx.x, rhs[1]), Interval_add(bx.y, rhs[2]),
             Interval_add(bx.z, rhs[3]))

axis_interval(bx, i) == IF i = 0 THEN bx.x ELSE IF i = 1 THEN bx.y ELSE bx.z

\* longest_axis with ties going to x first, then to z.
longest_axis_x_first(bx) ==
  IF Interval_size(bx.x) >= Interval_size(bx.y)
       /\ Interval_size(bx.x) >= Interval_size(bx.z) THEN 0
  ELSE IF Interval_size(bx.z) >= Interval_size(bx.y) THEN 2
  ELSE 1

longest_axis(bx) ==
  IF Interval_size(bx.x) > Interval_size(bx.y)
  THEN (IF Interval_size(bx.x) > Interval_size(bx.z) THEN 0 ELSE 2)
  ELSE IF Interval_size(bx.y) > Interval_size(bx.z) THEN 1
  ELSE 2

(***************************************************************************)
(* Ray (src/src/ray.rs) and the slab test                                  *)
(***************************************************************************)

\* inv_dir is kept as the direction it is the reciprocal of (see FMulInv).
Ray_new(orig, dir) ==
  [orig |-> orig, dir |-> dir,
   inv_dir |-> <<dir[1], dir[2], dir[3], 0>>,
   ro |-> <<orig[1], orig[2], orig[3], 0>>]

\* The four lanes of (v - r.ro) * r.inv_dir; lane 4 is never read.
SlabLanes(v, r) ==
  [k \in 1..3 |-> FMulInv(FSub(v[k], r.ro[k]), r.inv_dir[k])]

\* The near and far bounds without the lane-wise fast_min and fast_max: the
\* min plane is taken for the near one whatever the direction.
slab_near_far_unordered(tmin, tmax, ray_t) ==
  [tnear |-> FMax(ray_t.min, FMax(tmin[1], FMax(tmin[2], tmin[3]))),
   tfar  |-> FMin(ray_t.max, FMin(tmax[1], FMin(tmax[2], tmax[3])))]

\* The near and far bounds of the slab test.
slab_near_far(tmin, tmax, ray_t) ==
  LET t1    == [k \in 1..3 |-> FMin(tmin[k], tmax[k])]
      t2    == [k \in 1..3 |-> FMax(tmin[k], tmax[k])]
  IN  [tnear |-> FMax(ray_t.min, FMax(t1[1], FMax(t1[2], t1[3]))),
       tfar  |-> FMin(ray_t.max, FMin(t2[1], FMin(t2[2], t2[3])))]

\* The body shared by AABBox::hit_dist and Node::hit_dist.
slab_hit_dist(bmin, bmax, r, ray_t) ==
  ByValue(LAMBDA tmin :
    ByValue(LAMBDA tmax :
      ByValue(LAMBDA nf :
                IF nf.tfar >= nf.tnear /\ nf.tfar > 0 THEN FMax(nf.tnear, 0) ELSE Inf,
              slab_near_far(tmin, tmax, ray_t)),
      SlabLanes(bmax, r)),
    SlabLanes(bmin, r))

AABBox_hit_dist(bx, r, ray_t) == slab_hit_dist(bx.min, bx.max, r, ray_t)

\* AABBox::hits of src/src/bbox.rs, the boolean slab test: tnear <= tfar.
AABBox_hits(bx, r, ray_t) ==
  ByValue(LAMBDA nf : nf.tnear <= nf.tfar,
          slab_near_far(SlabLanes(bx.min, r), SlabLanes(bx.max, r), ray_t))

Node_hit_dist(node, r, ray_t) == slab_hit_dist(node.min, node.max, r, ray_t)

(***************************************************************************)
(* Vectors (src/src/v3.rs)                                                 *)
(***************************************************************************)

VAdd(a, b) == <<FAdd(a[1], b[1]), FAdd(a[2], b[2]), FAdd(a[3], b[3])>>
VSub(a, b) == <<FSub(a[1], b[1]), FSub(a[2], b[2]), FSub(a[3], b[3])>>
VScale(t, a) == <<FMul(a[1], t), FMul(a[2], t), FMul(a[3], t)>>
Dot(a, b) == FAdd(FAdd(FMul(a[1], b[1]), FMul(a[2], b[2])), FMul(a[3], b[3]))
Cross(a, b) ==
  <<FSub(FMul(a[2], b[3]), FMul(a[3], b[2])),
    FSub(FMul(a[3], b[1]), FMul(a[1], b[3])),
    FSub(FMul(a[1], b[2]), FMul(a[2], b[1]))>>

Sign(x) == IF x > 0 THEN 1 ELSE IF x < 0 THEN -1 ELSE 0

\* V3::unit_vector of a vector along one coordinate axis.
unit_vector(a) == <<Sign(a[1]), Sign(a[2]), Sign(a[3])>>

\* Ray::at
Ray_at(ray, t) == VAdd(ray.orig, VScale(t, ray.dir))

\* num / den where the quotient is a grid value.
FDiv(num, den) ==
  IF den > 0 THEN Sign(num) * (Abs(num) \div den)
  ELSE -Sign(num) * (Abs(num) \div (-den))

(***************************************************************************)
(* Primitives (src/src/hit.rs)                                             *)
(***************************************************************************)

NoHit == [hit |-> FALSE]

\* HitRecord::new.  The surface coordinates u and v are left out: nothing
\* modelled here reads them.
HitRecord_new(t, p, outward_normal, ray, mat) ==
  ByValue(LAMBDA front_face :
            [hit |-> TRUE, t |-> t, p |-> p,
             normal |-> IF front_face THEN outward_normal
                        ELSE <<-outward_normal[1], -outward_normal[2], -outward_normal[3]>>,
             front_face |-> front_face, mat |-> mat],
          Dot(ray.dir, outward_normal) < 0)

Hittable_Empty == [kind |-> "Empty", bbox |-> AABBox_EMPTY]

\* Quad::new.  w = n / n.dot(n) is kept as the pair (n, n.dot(n)).
Quad_new(q, u, v, mat) ==
  LET diag1 == AABBox_new_from_points(q, VAdd(VAdd(q, u), v))
      diag2 == AABBox_new_from_points(VAdd(q, u), VAdd(q, v))
      n     == Cross(u, v)
      normal == unit_vector(n)
  IN  [kind |-> "Quad", q |-> q, u |-> u, v |-> v, n |-> n, nn |-> Dot(n, n),
       normal |-> normal, d |-> Dot(normal, q), mat |-> mat,
       bbox |-> AABBox_new_enclosing(diag1, diag2)]

\* Quad::hits with QuadShape::Quad.  alpha = w . (hp x v) and
\* beta = w . (u x hp) are compared with 0 and 1 after multiplying by n . n.
hits_surface(s, planar_hitp) ==
  ByValue(LAMBDA ab :
            0 <= ab[1] /\ ab[1] <= s.nn /\ 0 <= ab[2] /\ ab[2] <= s.nn,
          <<Dot(s.n, Cross(planar_hitp, s.v)), Dot(s.n, Cross(s.u, planar_hitp))>>)

Quad_hits(s, ray, ray_t) ==
  ByValue(LAMBDA denom :
    IF denom = 0 THEN NoHit
    ELSE ByValue(LAMBDA t :
           IF ~Interval_contains(ray_t, t) THEN NoHit
           ELSE ByValue(LAMBDA intersection :
                  IF ~hits_surface(s, VSub(intersection, s.q)) THEN NoHit
                  ELSE HitRecord_new(t, intersection, s.normal, ray, s.mat),
                  Ray_at(ray, t)),
           FDiv(FSub(s.d, Dot(s.normal, ray.orig)), denom)),
    Dot(s.normal, ray.dir))

\* Triangle::new
Triangle_new(a, b, c, mat) ==
  LET ab == VSub(b, a)
      ac == VSub(c, a)
  IN  [kind |-> "Triangle", a |-> a, ab |-> ab, ac |-> ac, normal |-> Cross(ab, ac),
       mat |-> mat,
       bbox |-> AABBox_new_enclosing(AABBox_new_from_points(a, b),
                                     AABBox_new_from_points(a, c))]

\* Triangle::hits.  u = uN / det and v = vN / det are compared with 0 and 1
\* after multiplying by det.
Triangle_hits(s, ray, ray_t) ==
  ByValue(LAMBDA det :
    IF det = 0 THEN NoHit
    ELSE ByValue(LAMBDA ao :
           ByValue(LAMBDA t :
             IF ~Interval_surrounds(ray_t, t) THEN NoHit
             ELSE ByValue(LAMBDA r_x_ao :
                    ByValue(LAMBDA uv :
                              IF uv[1] < 0 \/ uv[2] < 0 \/ uv[1] + uv[2] > Abs(det)
                              THEN NoHit
                              ELSE HitRecord_new(t, Ray_at(ray, t), s.normal, ray, s.mat),
                            <<Dot(s.ac, r_x_ao) * Sign(det),
                              -Dot(s.ab, r_x_ao) * Sign(det)>>),
                    Cross(ao, ray.dir)),
             FDiv(Dot(ao, s.normal), det)),
           VSub(ray.orig, s.a)),
    -Dot(ray.dir, s.normal))

RECURSIVE Hittable_hits(_, _, _)

\* Translate::hits: the inner primitive is asked with the ray moved back by
\* the offset and the position of its hit is moved forward again.
Translate_hits(s, ray, ray_t) ==
  ByValue(LAMBDA rec :
            IF ~rec.hit THEN NoHit
            ELSE [rec EXCEPT !.p = VAdd(rec.p, s.offset)],
          Hittable_hits(s.inner, Ray_new(VSub(ray.orig, s.offset), ray.dir), ray_t))

Hittable_hits(s, ray, ray_t) ==
  IF s.kind = "Quad" THEN Quad_hits(s, ray, ray_t)
  ELSE IF s.kind = "Triangle" THEN Triangle_hits(s, ray, ray_t)
  ELSE IF s.kind = "Translate" THEN Translate_hits(s, ray, ray_t)
  ELSE NoHit

Hittable_bounding_box(s) == s.bbox

\* Translate::new
Translate_new(inner, offset) ==
  [kind |-> "Translate", inner |-> inner, offset |-> offset,
   bbox |-> AABBox_add(Hittable_bounding_box(inner), offset)]

RECURSIVE ListScan(_, _, _, _, _)
\* The loop of HittableList::hits from object k on.
ListScan(objects, k, ray, ray_t_min, acc) ==
  IF k > Len(objects) THEN acc.rec
  ELSE ByValue(LAMBDA obj_rec :
                 ListScan(objects, k + 1, ray, ray_t_min,
                          IF obj_rec.hit
                          THEN [rec |-> obj_rec, closest_so_far |-> obj_rec.t]
                          ELSE acc),
               Hittable_hits(objects[k], ray, Interval_new(ray_t_min, acc.closest_so_far)))

HittableList_hits(objects, ray, ray_t) ==
  ListScan(objects, 1, ray, ray_t.min, [rec |-> NoHit, closest_so_far |-> ray_t.max])

\* Option
None == [some |-> FALSE]
Some(v) == [some |-> TRUE, v |-> v]

(***************************************************************************)
(* Metal (src/src/material.rs, src/src/v3.rs)                              *)
(*                                                                         *)
(* Directions and normals of this section are fixed-point numbers: the     *)
(* value 1.0 is One grid units, so that unit vectors that are not along    *)
(* an axis have representable components.  A product or a quotient is      *)
(* brought back to the scale and rounded.                                  *)
(***************************************************************************)

\* 1.0
One == 60

\* The integer nearest to a / b for b > 0, ties to even.
RoundDiv(a, b) ==
  ByValue(LAMBDA m :
            ByValue(LAMBDA q :
                      LET rem == m - q * b
                          up  == 2 * rem > b \/ (2 * rem = b /\ q % 2 = 1)
                      IN  Sign(a) * (IF up THEN q + 1 ELSE q),
                    m \div b),
          Abs(a))

\* a * b
FxMul(a, b) == Fl(RoundDiv(a * b, One))

\* a / b for b # 0
FxDiv(a, b) == Fl(Sign(b) * RoundDiv(a * One, Abs(b)))

\* f32::sqrt of a >= 0
FxSqrt(a) ==
  ByValue(LAMBDA x :
            ByValue(LAMBDA lo : Fl(IF x - lo * lo <= lo THEN lo ELSE lo + 1),
                    CHOOSE lo \in 0..(x + 1) : lo * lo <= x /\ x < (lo + 1) * (lo + 1)),
          a * One)

\* V3::dot
V3_dot(a, b) == FAdd(FAdd(FxMul(a[1], b[1]), FxMul(a[2], b[2])), FxMul(a[3], b[3]))

\* V3 * f32 and f32 * V3
V3_mul(a, t) == <<FxMul(a[1], t), FxMul(a[2], t), FxMul(a[3], t)>>

\* V3::length
V3_length(a) == FxSqrt(V3_dot(a, a))

\* V3::unit_vector: *self / self.length(), and V3 / f32 is self * (1.0 / rhs).
\* The vector is not the zero vector.
V3_unit_vector(a) ==
  ByValue(LAMBDA inv : V3_mul(a, inv), FxDiv(One, V3_length(a)))

\* V3::reflect
V3_reflect(a, normal) ==
  VSub(a, V3_mul(normal, FxMul(2 * One, V3_dot(a, normal))))

\* metal_scatter with the reflected direction left at its length.
metal_scatter_unnormalised(albedo, fuzz, r_in, rec, rnd) ==
  ByValue(LAMBDA scattered :
            IF V3_dot(scattered.dir, rec.normal) > 0
            THEN Some([ray |-> scattered, attenuation |-> albedo])
            ELSE None,
          Ray_new(rec.p, VAdd(V3_reflect(r_in.dir, rec.normal), V3_mul(rnd, fuzz))))

\* metal_scatter; rnd is the vector V3::random_unit_vector() returns.
metal_scatter(albedo, fuzz, r_in, rec, rnd) ==
  ByValue(LAMBDA scattered :
            IF V3_dot(scattered.dir, rec.normal) > 0
            THEN Some([ray |-> scattered, attenuation |-> albedo])
            ELSE None,
          Ray_new(rec.p, VAdd(V3_unit_vector(V3_reflect(r_in.dir, rec.normal)),
                              V3_mul(rnd, fuzz))))

(***************************************************************************)
(* Bvh construction (src/src/bvh.rs)                                       *)
(***************************************************************************)

\* The depth at which split stops splitting, and the capacity of the
\* traversal stack (16 in the code).
MAX_BVH_DEPTH == 2

RECURSIVE ContainingFromShort(_, _, _)
\* The loop of new_containing ending one object early.
ContainingFromShort(objs, k, bbox) ==
  IF k >= Len(objs) THEN bbox
  ELSE ByValue(LAMBDA b : ContainingFromShort(objs, k + 1, b),
               AABBox_new_enclosing(bbox, Hittable_bounding_box(objs[k])))

RECURSIVE ContainingFrom(_, _, _)
\* The loop of new_containing from object k on.
ContainingFrom(objs, k, bbox) ==
  IF k > Len(objs) THEN bbox
  ELSE ByValue(LAMBDA b : ContainingFrom(objs, k + 1, b),
               AABBox_new_enclosing(bbox, Hittable_bounding_box(objs[k])))

AABBox_new_containing(objs) ==
  ByValue(LAMBDA os : ContainingFrom(os, 1, AABBox_EMPTY), objs)

FatNode_new(bbox, start) == [bbox |-> bbox, start |-> start, n |-> None]

\* The key the range is sorted by.
SortKey(obj, axis) == axis_interval(Hittable_bounding_box(obj), axis).min

\* slice::sort_by is a stable sort: an element moves behind exactly the
\* elements with a smaller key and the earlier elements with an equal key.
SortedBy(objs, axis) ==
  ByValue(LAMBDA key :
            LET n == Len(key)
                before(k) == {j \in 1..n : \/ key[j] < key[k]
                                           \/ key[j] = key[k] /\ j < k}
            IN  [p \in 1..n |-> objs[CHOOSE k \in 1..n : Cardinality(before(k)) + 1 = p]],
          [k \in 1..Len(objs) |-> SortKey(objs[k], axis)])

\* The range left in the order it had.
sort_range_skipped(hs, start, n, axis) == hs

\* hittables[start..(start + n)].sort_by(...)
sort_range(hs, start, n, axis) ==
  ByValue(LAMBDA part :
            SubSeq(hs, 1, start) \o SortedBy(part, axis)
              \o SubSeq(hs, start + n + 1, Len(hs)),
          SubSeq(hs, start + 1, start + n))

\* The two children of an interior node are appended and the parent is
\* pointed at the left one.
push_children(nds, parent_idx, sorted, start, nleft, n) ==
  ByValue(LAMBDA nodes2 :
            [nodes2 EXCEPT ![parent_idx + 1].start = Len(nodes2) - 2],
          nds \o << FatNode_new(AABBox_new_containing(
                                  SubSeq(sorted, start + 1, start + nleft)),
                                start),
                    FatNode_new(AABBox_new_containing(
                                  SubSeq(sorted, start + nleft + 1, start + n)),
                                start + nleft) >>)

RECURSIVE split(_, _, _, _, _)

\* split with the right child starting where the left one starts.
split_right_at_start(parent_idx, start, n, depth, st) ==
  IF n = 1 \/ depth >= MAX_BVH_DEPTH
  THEN [st EXCEPT !.nodes[parent_idx + 1].start = start,
                  !.nodes[parent_idx + 1].n = Some(n)]
  ELSE LET nleft  == n \div 2
           nright == n - nleft
       IN  ByValue(LAMBDA sorted :
             ByValue(LAMBDA nodes3 :
               ByValue(LAMBDA left :
                         split(Len(nodes3) - 1, start, nright, depth + 1, left),
                       split(Len(nodes3) - 2, start, nleft, depth + 1,
                             [nodes |-> nodes3, hittables |-> sorted])),
               push_children(st.nodes, parent_idx, sorted, start, nleft, n)),
             sort_range(st.hittables, start, n,
                        longest_axis(st.nodes[parent_idx + 1].bbox)))

\* split going one level past MAX_BVH_DEPTH before it stops.
split_past_depth(parent_idx, start, n, depth, st) ==
  IF n = 1 \/ depth > MAX_BVH_DEPTH
  THEN [st EXCEPT !.nodes[parent_idx + 1].start = start,
                  !.nodes[parent_idx + 1].n = Some(n)]
  ELSE LET nleft  == n \div 2
           nright == n - nleft
       IN  ByValue(LAMBDA sorted :
             ByValue(LAMBDA nodes3 :
               ByValue(LAMBDA left :
                         split(Len(nodes3) - 1, start + nleft, nright, depth + 1, left),
                       split(Len(nodes3) - 2, start, nleft, depth + 1,
                             [nodes |-> nodes3, hittables |-> sorted])),
               push_children(st.nodes, parent_idx, sorted, start, nleft, n)),
             sort_range(st.hittables, start, n,
                        longest_axis(st.nodes[parent_idx + 1].bbox)))

\* st holds the two vectors split mutates: nodes and hittables.
split(parent_idx, start, n, depth, st) ==
  IF n = 1 \/ depth >= MAX_BVH_DEPTH
  THEN [st EXCEPT !.nodes[parent_idx + 1].start = start,
                  !.nodes[parent_idx + 1].n = Some(n)]
  ELSE LET nleft  == n \div 2
           nright == n - nleft
       IN  ByValue(LAMBDA sorted :
             ByValue(LAMBDA nodes3 :
               ByValue(LAMBDA left :
                         split(Len(nodes3) - 1, start + nleft, nright, depth + 1, left),
                       split(Len(nodes3) - 2, start, nleft, depth + 1,
                             [nodes |-> nodes3, hittables |-> sorted])),
               push_children(st.nodes, parent_idx, sorted, start, nleft, n)),
             sort_range(st.hittables, start, n,
                        longest_axis(st.nodes[parent_idx + 1].bbox)))

\* The Node a FatNode is turned into by Bvh::new.
Node_from(fat) ==
  [min |-> fat.bbox.min, max |-> fat.bbox.max, start |-> fat.start, n |-> fat.n]

(***************************************************************************)
(* Camera (src/src/ray.rs)                                                 *)
(*                                                                         *)
(* The accumulation of passes is followed in exact arithmetic: a pixel     *)
(* value is a fraction n / d in lowest terms with d > 0.                   *)
(***************************************************************************)

RECURSIVE GCD(_, _)
GCD(a, b) == IF b = 0 THEN a ELSE GCD(b, a % b)

\* The fraction n / d for d > 0
Q(n, d) ==
  ByValue(LAMBDA g : [n |-> n \div g, d |-> d \div g], GCD(Abs(n), d))

QAdd(a, b) ==
  ByValue(LAMBDA g : Q(a.n * (b.d \div g) + b.n * (a.d \div g), (a.d \div g) * b.d),
          GCD(a.d, b.d))
QMul(a, b) == Q(a.n * b.n, a.d * b.d)

\* Camera::new: the fields the render loop reads.  aspect_ratio is the
\* fraction aspect[1] / aspect[2].
Camera_new(aspect, image_width, samples_pp, step_size, max_bounces, bg) ==
  LET h     == (image_width * aspect[2]) \div aspect[1]
      split_passes == step_size > 0 /\ samples_pp > step_size
  IN  [image_width |-> image_width,
       image_height |-> IF h > 1 THEN h ELSE 1,
       samples_pp |-> IF split_passes THEN step_size ELSE samples_pp,
       iterations |-> IF split_passes THEN samples_pp \div step_size ELSE 1,
       max_bounces |-> max_bounces,
       bg |-> bg]

(***************************************************************************)
(* State                                                                   *)
(***************************************************************************)

VARIABLES
  \* Bvh::new and Bvh::hits
  pc,         \* "new", "built", "loop", "done" or "panic"
  input,      \* the list handed to Bvh::new
  hittables,  \* Bvh.hittables
  nodes,      \* Bvh.nodes (index 0 of the code is index 1 here)
  bvh_bbox,   \* Bvh.bbox
  r,          \* the ray of the running query
  ray_t0,     \* the interval the query was called with
  ray_t,      \* the local ray_t of Bvh::hits
  stack,      \* the caller's stack array
  i,          \* the stack depth
  hr,         \* the best hit so far
  widx,       \* the stack indices written by the running query, in order
  popped,     \* the node indices popped by the running query, in order
  recorded,   \* the hits the running query recorded, in order, each with
              \* the ray_t.max that was set with it
  \* box constructors, new_enclosing and hit_dist as pure functions
  boxA,       \* a box produced by the constructors
  boxB,       \* another one
  boxOp,      \* the last operation applied, with its operands and result
  \* Camera::render_ppm and Camera::render_pass
  cam,        \* the Camera
  seed,       \* what the random draws of the render are
  rpc,        \* "idle", "start", "tasks", "collected" or "end"
  pass,       \* i of the loop of render_ppm
  samples,    \* the radiances the sample tasks of the running pass returned
  out,        \* the sums the pixel tasks of the running pass returned
  new_pixels, \* what render_pass returned
  pixels,     \* the accumulated image
  file,       \* what was last written to test.ppm
  \* Camera::ray_color
  rc,         \* the locals of ray_color
  \* HittableList
  objects,    \* HittableList.objects
  list_bbox,  \* HittableList.bbox
  \* functions of the camera and of the textures applied once
  call,       \* the function applied, with its arguments and its result
  \* BvhNode::new
  build       \* the calls of BvhNode::new that are running or pending

bvhVars == <<pc, input, hittables, nodes, bvh_bbox, r, ray_t0, ray_t, stack, i, hr,
             widx, popped, recorded>>
boxVars == <<boxA, boxB, boxOp>>
renderVars == <<cam, seed, rpc, pass, samples, out, new_pixels, pixels, file>>
camVars == <<renderVars, rc>>
libVars == <<objects, list_bbox, call, build>>
vars == <<bvhVars, boxVars, camVars, libVars>>

(***************************************************************************)
(* Box constructors and union as operations                                *)
(***************************************************************************)

\* Coordinates handed to the constructors, per axis.  64 and 80 lie where
\* the grid is coarser than the padding.
BoxXs == {0, 2, 64, 80}
BoxYs == {0, 8}
BoxZs == {0}
BoxPoints == {<<x, y, z>> : x \in BoxXs, y \in BoxYs, z \in BoxZs}

OrderedIntervals(S) == {Interval_new(e[1], e[2]) : e \in {f \in S \X S : f[1] <= f[2]}}

\* How many times the accumulating union is applied to one accumulator.
MaxFold == 2

NoOp == [name |-> "none", dst |-> "none", fold |-> 0]

BoxInit ==
  /\ boxA = AABBox_EMPTY
  /\ boxB = AABBox_EMPTY
  /\ boxOp = NoOp

\* A constructor result is bound to a first, and to b before every union;
\* a is the accumulator of the unions.
Bind(dst, res, name) ==
  /\ dst = "a" => boxOp.dst = "none"
  /\ dst = "b" => boxOp.dst = "a"
  /\ boxA' = IF dst = "a" THEN res ELSE boxA
  /\ boxB' = IF dst = "b" THEN res ELSE boxB
  /\ boxOp' = [name |-> name, dst |-> dst, res |-> res, fold |-> boxOp.fold]

\* AABBox::new_from_points(p, q)
BoxNewFromPoints ==
  \E p \in BoxPoints, q \in BoxPoints, dst \in {"a", "b"} :
    /\ Bind(dst, AABBox_new_from_points(p, q), "new_from_points")
    /\ UNCHANGED <<bvhVars, camVars, libVars>>

\* AABBox::new(x, y, z) on intervals with min <= max
BoxNew ==
  \E x \in OrderedIntervals(BoxXs), y \in OrderedIntervals(BoxYs),
     z \in OrderedIntervals(BoxZs), dst \in {"a", "b"} :
    /\ Bind(dst, AABBox_new(x, y, z), "new")
    /\ UNCHANGED <<bvhVars, camVars, libVars>>

\* AABBox::EMPTY and AABBox::UNIVERSE
BoxConst ==
  \E res \in {AABBox_EMPTY, AABBox_UNIVERSE}, dst \in {"a", "b"} :
    /\ Bind(dst, res, "const")
    /\ UNCHANGED <<bvhVars, camVars, libVars>>

\* a = AABBox::new_enclosing(a, b); as in new_containing and HittableList::add
BoxEnclosing ==
  LET res == AABBox_new_enclosing(boxA, boxB)
  IN  /\ boxOp.dst = "b"
      /\ boxOp.fold < MaxFold
      /\ boxA' = res
      /\ boxB' = boxB
      /\ boxOp' = [name |-> "new_enclosing", dst |-> "a", a |-> boxA, b |-> boxB,
                   res |-> res, fold |-> boxOp.fold + 1]
      /\ UNCHANGED <<bvhVars, camVars, libVars>>

\* Every pair of interval ends, reversed and infinite ones included.
IntervalEnds == BoxXs \cup {8, Inf, -Inf}
AllIntervals == {Interval_new(lo, hi) : lo \in IntervalEnds, hi \in IntervalEnds}

\* Interval::new_enclosing(a, b)
IntervalEnclosing ==
  \E a \in AllIntervals, b \in AllIntervals :
    /\ boxOp.name = "none"
    /\ boxOp' = [name |-> "interval_new_enclosing", a |-> a, b |-> b,
                 res |-> Interval_new_enclosing(a, b), fold |-> 0]
    /\ UNCHANGED <<boxA, boxB>>
    /\ UNCHANGED <<bvhVars, camVars, libVars>>

(***************************************************************************)
(* The slab test as an operation                                           *)
(***************************************************************************)

RayOrigins == {<<-4, 4, 0>>, <<4, 4, 0>>, <<12, 4, 0>>, <<4, -6, 0>>, <<4, 4, 6>>,
               <<68, 4, 0>>}
RayDirs == {<<dx, dy, dz>> : dx \in {-2, -1, 1, 2}, dy \in {-1, 1}, dz \in {-1, 2}}
RayIntervals == {Interval_new(0, Inf), Interval_new(-Inf, Inf), Interval_new(2, 6),
                 Interval_new(-6, 2)}

\* The box the slab test is applied to.
SlabBoxFromPoints ==
  \E p \in BoxPoints, q \in BoxPoints :
    LET res == AABBox_new_from_points(p, q)
    IN  /\ boxOp.name = "none"
        /\ boxA' = res
        /\ boxOp' = [name |-> "new_from_points", res |-> res, fold |-> 0]
        /\ UNCHANGED boxB
        /\ UNCHANGED <<bvhVars, camVars, libVars>>

SlabBoxConst ==
  \E res \in {AABBox_EMPTY, AABBox_UNIVERSE} :
    /\ boxOp.name = "none"
    /\ boxA' = res
    /\ boxOp' = [name |-> "const", res |-> res, fold |-> 0]
    /\ UNCHANGED boxB
    /\ UNCHANGED <<bvhVars, camVars, libVars>>

\* boxA.hit_dist(&Ray::new(o, d), t) and boxA.hits(&Ray::new(o, d), t)
SlabHitDist ==
  \E o \in RayOrigins, d \in RayDirs, t \in RayIntervals :
    LET ray == Ray_new(o, d)
    IN  /\ boxOp.name \in {"new_from_points", "const"}
        /\ boxOp' = [name |-> "hit_dist", a |-> boxA, r |-> ray, ray_t |-> t,
                     res |-> AABBox_hit_dist(boxA, ray, t),
                     hits |-> AABBox_hits(boxA, ray, t), fold |-> 0]
        /\ UNCHANGED <<boxA, boxB>>
        /\ UNCHANGED <<bvhVars, camVars, libVars>>

(***************************************************************************)
(* Bvh::new and Bvh::hits                                                  *)
(***************************************************************************)

\* The primitives scenes are made of.  The material names the primitive.
\* The fifth lies in a plane where the grid is coarser than the padding.
Catalogue ==
  << Quad_new(<<0, 0, 8>>, <<4, 0, 0>>, <<0, 4, 0>>, 1),
     Quad_new(<<0, 0, 4>>, <<4, 0, 0>>, <<0, 4, 0>>, 2),
     Triangle_new(<<0, 0, 12>>, <<4, 0, 12>>, <<0, 4, 12>>, 3),
     Quad_new(<<8, 0, 4>>, <<0, 4, 0>>, <<0, 0, 4>>, 4),
     Quad_new(<<64, 0, 4>>, <<0, 4, 0>>, <<0, 0, 4>>, 5),
     Hittable_Empty >>

\* The longest list handed to Bvh::new.
MaxPrims == 5

\* Lists are enumerated up to the order of their elements: the indices into
\* the catalogue do not decrease along a list.
IndexLists(n) ==
  {l \in [1..n -> 1..Len(Catalogue)] : \A k \in 1..(n - 1) : l[k] <= l[k + 1]}
InputLists ==
  UNION {{[k \in 1..n |-> Catalogue[l[k]]] : l \in IndexLists(n)} : n \in 0..MaxPrims}

QueryRays ==
  { Ray_new(<<2, 2, 0>>, <<1, 1, 2>>),
    Ray_new(<<-2, -2, 0>>, <<1, 1, 2>>),
    Ray_new(<<2, 2, 14>>, <<-1, -1, -2>>),
    Ray_new(<<-4, 2, 0>>, <<2, 1, 1>>),
    Ray_new(<<12, 2, 6>>, <<-2, -1, -1>>),
    Ray_new(<<-10, 2, 4>>, <<1, 1, 1>>) }
QueryIntervals == {Interval_new(1, Inf), Interval_new(0, 4), Interval_new(0, 2)}

ZeroStack == [k \in 1..MAX_BVH_DEPTH |-> 0]

BvhInit ==
  /\ pc = "new"
  /\ input \in InputLists
  /\ hittables = <<>>
  /\ nodes = <<>>
  /\ bvh_bbox = AABBox_EMPTY
  /\ r = Ray_new(<<0, 0, 0>>, <<1, 1, 1>>)
  /\ ray_t0 = Interval_EMPTY
  /\ ray_t = Interval_EMPTY
  /\ stack = ZeroStack
  /\ i = 0
  /\ hr = NoHit
  /\ widx = <<>>
  /\ popped = <<>>
  /\ recorded = <<>>

\* Bvh::new(input)
BvhNew ==
  /\ pc = "new"
  /\ \E bbox \in {AABBox_new_containing(input)} :
       \E fat \in {split(0, 0, Len(input), 0,
                          [nodes |-> <<FatNode_new(bbox, 0)>>, hittables |-> input])} :
         /\ nodes' = [k \in 1..Len(fat.nodes) |-> Node_from(fat.nodes[k])]
         /\ hittables' = fat.hittables
         /\ bvh_bbox' = bbox
  /\ pc' = "built"
  /\ UNCHANGED <<input, r, ray_t0, ray_t, stack, i, hr, widx, popped, recorded>>
  /\ UNCHANGED <<boxVars, camVars, libVars>>

\* Bvh::hits up to the loop: hr = None; i = 1; stack[0] = 0;
HitsBegin ==
  \E ray \in QueryRays, t \in QueryIntervals :
    /\ pc = "built"
    /\ r' = ray
    /\ ray_t0' = t
    /\ ray_t' = t
    /\ hr' = NoHit
    /\ i' = 1
    /\ stack' = [stack EXCEPT ![1] = 0]
    /\ widx' = <<0>>
    /\ popped' = <<>>
    /\ recorded' = <<>>
    /\ pc' = "loop"
    /\ UNCHANGED <<input, hittables, nodes, bvh_bbox>>
    /\ UNCHANGED <<boxVars, camVars, libVars>>

RECURSIVE LeafScan(_, _, _, _)

\* The for loop with ray_t left as it is when a hit is recorded.
LeafScanKeepsBound(k, last, ray, acc) ==
  IF k > last THEN acc
  ELSE ByValue(LAMBDA rec :
                 LeafScan(k + 1, last, ray,
                          IF rec.hit
                          THEN [ray_t |-> acc.ray_t, hr |-> rec,
                                recorded |-> Append(acc.recorded,
                                                    [t |-> rec.t, max |-> acc.ray_t.max])]
                          ELSE acc),
               Hittable_hits(hittables[k], ray, acc.ray_t))

\* The for loop over the primitives of a leaf; acc is (ray_t, hr) and the
\* hits recorded so far.
LeafScan(k, last, ray, acc) ==
  IF k > last THEN acc
  ELSE ByValue(LAMBDA rec :
                 LeafScan(k + 1, last, ray,
                          IF rec.hit
                          THEN [ray_t |-> [acc.ray_t EXCEPT !.max = rec.t], hr |-> rec,
                                recorded |-> Append(acc.recorded,
                                                    [t |-> rec.t, max |-> rec.t])]
                          ELSE acc),
               Hittable_hits(hittables[k], ray, acc.ray_t))

\* One iteration of the loop that pops a leaf.
HitsLeaf ==
  /\ pc = "loop"
  /\ i > 0
  /\ nodes[stack[i] + 1].n.some
  /\ \E acc \in {LeafScan(nodes[stack[i] + 1].start + 1,
                            nodes[stack[i] + 1].start + nodes[stack[i] + 1].n.v, r,
                            [ray_t |-> ray_t, hr |-> hr, recorded |-> recorded])} :
       /\ ray_t' = acc.ray_t
       /\ hr' = acc.hr
       /\ recorded' = acc.recorded
  /\ popped' = Append(popped, stack[i])
  /\ i' = i - 1
  /\ UNCHANGED <<pc, input, hittables, nodes, bvh_bbox, r, ray_t0, stack, widx>>
  /\ UNCHANGED <<boxVars, camVars, libVars>>

\* The order in which the two children are pushed: a first, then b.
PushOrder(start, ldist, rdist) ==
  IF ldist < rdist
  THEN [a |-> start, adist |-> ldist, b |-> start + 1, bdist |-> rdist]
  ELSE [a |-> start + 1, adist |-> rdist, b |-> start, bdist |-> ldist]

\* One iteration of the loop that pops an interior node.  A write at an
\* index that is not below the capacity of the stack array panics.
HitsInterior ==
  /\ pc = "loop"
  /\ i > 0
  /\ ~nodes[stack[i] + 1].n.some
  /\ \E o \in {PushOrder(nodes[stack[i] + 1].start,
                         Node_hit_dist(nodes[nodes[stack[i] + 1].start + 1], r, ray_t),
                         Node_hit_dist(nodes[nodes[stack[i] + 1].start + 2], r, ray_t))} :
       LET j     == i - 1
           pushA == o.adist < ray_t.max
           pushB == o.bdist < ray_t.max
           i1    == IF pushA THEN j + 1 ELSE j
           failA == pushA /\ j >= MAX_BVH_DEPTH
           failB == pushB /\ i1 >= MAX_BVH_DEPTH
           s1    == IF pushA /\ ~failA THEN [stack EXCEPT ![j + 1] = o.a] ELSE stack
       IN  /\ stack' = IF pushB /\ ~failA /\ ~failB THEN [s1 EXCEPT ![i1 + 1] = o.b] ELSE s1
           /\ widx' = widx \o (IF pushA THEN <<j>> ELSE <<>>)
                           \o (IF pushB /\ ~failA THEN <<i1>> ELSE <<>>)
           /\ i' = IF failA THEN j
                   ELSE IF pushB /\ ~failB THEN i1 + 1 ELSE i1
           /\ pc' = IF failA \/ failB THEN "panic" ELSE "loop"
  /\ popped' = Append(popped, stack[i])
  /\ UNCHANGED <<input, hittables, nodes, bvh_bbox, r, ray_t0, ray_t, hr, recorded>>
  /\ UNCHANGED <<boxVars, camVars, libVars>>

\* The loop ends with an empty stack and hr is returned.
HitsReturn ==
  /\ pc = "loop"
  /\ i = 0
  /\ pc' = "done"
  /\ UNCHANGED <<input, hittables, nodes, bvh_bbox, r, ray_t0, ray_t, stack, i, hr,
                 widx, popped, recorded>>
  /\ UNCHANGED <<boxVars, camVars, libVars>>

(***************************************************************************)
(* Translate as an operation                                               *)
(***************************************************************************)

\* Offsets handed to Hittable::translate.  56 moves a plane at 8 to 64,
\* where the grid becomes coarser than the padding.
Offsets == {<<0, 0, 0>>, <<2, 2, 0>>, <<0, 0, 56>>, <<56, 0, 0>>, <<-2, 0, 4>>}

\* The rays and the intervals the wrapped primitive is asked with.
TranslateRays ==
  QueryRays \cup {Ray_new(<<2, 2, 80>>, <<-1, -1, -2>>), Ray_new(<<4, 2, 0>>, <<1, 1, 2>>)}

\* inner.translate(offset)
TranslateNew ==
  \E k \in 1..Len(Catalogue), offset \in Offsets :
    /\ boxOp.name = "none"
    /\ boxOp' = [name |-> "translate", s |-> Translate_new(Catalogue[k], offset),
                 fold |-> 0]
    /\ UNCHANGED <<boxA, boxB>>
    /\ UNCHANGED <<bvhVars, camVars, libVars>>

\* s.hits(&ray, t) on the Translate built before
TranslateHits ==
  \E ray \in TranslateRays, t \in QueryIntervals :
    /\ boxOp.name = "translate"
    /\ boxOp' = [name |-> "translate_hits", s |-> boxOp.s, r |-> ray, ray_t |-> t,
                 res |-> Hittable_hits(boxOp.s, ray, t), fold |-> 0]
    /\ UNCHANGED <<boxA, boxB>>
    /\ UNCHANGED <<bvhVars, camVars, libVars>>

(***************************************************************************)
(* Metal scattering as an operation                                        *)
(***************************************************************************)

\* Unit vectors: along an axis and oblique (0.6, 0.8).
UnitDirs ==
  {<<0, 0, -60>>, <<0, 0, 60>>, <<-60, 0, 0>>, <<0, 36, -48>>, <<36, 0, -48>>,
   <<0, -48, -36>>, <<48, 0, 36>>, <<36, 48, 0>>}

\* Incoming directions of length 0.5, 1 and 2.
HalfScales == {1, 2, 4}
MetalDirs == {<<(u[1] * k) \div 2, (u[2] * k) \div 2, (u[3] * k) \div 2>> :
                u \in UnitDirs, k \in HalfScales}

MetalNormals == {<<0, 0, 60>>, <<0, 60, 0>>, <<-60, 0, 0>>, <<0, 36, 48>>}
MetalFuzz == {0, 30}
RandomUnitVectors == {<<60, 0, 0>>, <<0, 0, -60>>, <<0, -36, 48>>}

\* Material::Metal { albedo, fuzz }.scatter(r_in, rec)
MetalScatter ==
  \E d \in MetalDirs, n \in MetalNormals, fuzz \in MetalFuzz, rnd \in RandomUnitVectors :
    /\ boxOp.name = "none"
    /\ boxOp' = [name |-> "metal_scatter", fuzz |-> fuzz, dir |-> d, normal |-> n,
                 rnd |-> rnd,
                 res |-> metal_scatter(1, fuzz, Ray_new(<<0, 0, 0>>, d),
                                       [p |-> <<0, 0, 0>>, normal |-> n], rnd),
                 fold |-> 0]
    /\ UNCHANGED <<boxA, boxB>>
    /\ UNCHANGED <<bvhVars, camVars, libVars>>

(***************************************************************************)
(* Camera::render_ppm and Camera::render_pass                              *)
(*                                                                         *)
(* render_pass hands the rows, the pixels of a row and the samples of a    *)
(* pixel to rayon: every sample and every pixel is a task, the tasks run   *)
(* in any order, and collect() returns the pixels in the order of the      *)
(* ranges they were mapped from.  A radiance is one number here; the three *)
(* channels of a Color are accumulated alike.                              *)
(***************************************************************************)

\* (aspect_ratio, image_width, samples_pp, step_size) handed to Camera::new
\* with at most two samples per pixel and pass: three by two pixels in one
\* to four passes, and a single pixel.
RenderConfigs ==
  {c \in {<<3, 2>>} \X {3} \X {1, 2, 3, 4} \X {0, 1, 2} :
     Camera_new(c[1], c[2], c[3], c[4], 0, 0).samples_pp <= 2}
  \cup {<<<<2, 1>>, 1, 2, 1>>}

Seeds == {0, 1}

\* What ray_color returns for sample s of pixel (i, j) in pass p: the
\* outcome of its random draws.
Radiance(sd, p, j, k, s) == (sd + 2 * p + 3 * j + 5 * k + 7 * s + p * k) % 5

EmptyFn == [t \in {} |-> 0]

NoRayColor == [pc |-> "idle"]

CamIdle ==
  /\ cam = Camera_new(<<1, 1>>, 1, 1, 0, 0, 0)
  /\ seed = 0
  /\ rpc = "idle"
  /\ pass = 0
  /\ samples = EmptyFn
  /\ out = EmptyFn
  /\ new_pixels = <<>>
  /\ pixels = <<>>
  /\ file = <<>>
  /\ rc = NoRayColor

\* render_ppm is entered: pixels = Vec::new()
RenderInit ==
  /\ cam \in {Camera_new(c[1], c[2], c[3], c[4], 0, 0) : c \in RenderConfigs}
  /\ seed \in Seeds
  /\ rpc = "start"
  /\ pass = 0
  /\ samples = EmptyFn
  /\ out = EmptyFn
  /\ new_pixels = <<>>
  /\ pixels = <<>>
  /\ file = <<>>
  /\ rc = NoRayColor

\* The next i of for i in 1..=self.iterations; render_pass is entered.
PassBegin ==
  /\ rpc \in {"start", "written"}
  /\ pass < cam.iterations
  /\ pass' = pass + 1
  /\ samples' = EmptyFn
  /\ out' = EmptyFn
  /\ new_pixels' = <<>>
  /\ rpc' = "tasks"
  /\ UNCHANGED <<cam, seed, pixels, file, rc>>
  /\ UNCHANGED <<bvhVars, boxVars, libVars>>

\* One sample task: self.ray_color(self.get_ray(fi, fj), bvh)
SampleTask ==
  \E j \in 0..(cam.image_height - 1), k \in 0..(cam.image_width - 1),
     s \in 0..(cam.samples_pp - 1) :
    /\ rpc = "tasks"
    /\ <<j, k, s>> \notin DOMAIN samples
    /\ samples' = samples @@ (<<j, k, s>> :> Radiance(seed, pass, j, k, s))
    /\ UNCHANGED <<cam, seed, rpc, pass, out, new_pixels, pixels, file, rc>>
    /\ UNCHANGED <<bvhVars, boxVars, libVars>>

RECURSIVE reduce_samples(_, _, _, _)
\* .reduce(Color::default, |mut a, b| { a += b; a }) over the samples of a
\* pixel from sample s on.
reduce_samples(smp, px, s, n) ==
  IF s >= n THEN 0 ELSE smp[<<px[1], px[2], s>>] + reduce_samples(smp, px, s + 1, n)

\* One pixel task: the reduction of the pixel's samples is complete.
PixelTask ==
  \E j \in 0..(cam.image_height - 1), k \in 0..(cam.image_width - 1) :
    /\ rpc = "tasks"
    /\ <<j, k>> \notin DOMAIN out
    /\ \A s \in 0..(cam.samples_pp - 1) : <<j, k, s>> \in DOMAIN samples
    /\ out' = out @@ (<<j, k>> :> reduce_samples(samples, <<j, k>>, 0, cam.samples_pp))
    /\ UNCHANGED <<cam, seed, rpc, pass, samples, new_pixels, pixels, file, rc>>
    /\ UNCHANGED <<bvhVars, boxVars, libVars>>

\* collect() with the rows and the columns taken the other way round.
collect_by_columns(o, width, height) ==
  [n \in 1..(width * height) |-> o[<<(n - 1) % height, (n - 1) \div height>>]]

\* collect(): the rows in order, and in a row its pixels in order.
collect(o, width, height) ==
  [n \in 1..(width * height) |-> o[<<(n - 1) \div width, (n - 1) % width>>]]

\* render_pass returns when every pixel task has returned.
Collect ==
  /\ rpc = "tasks"
  /\ DOMAIN out = (0..(cam.image_height - 1)) \X (0..(cam.image_width - 1))
  /\ new_pixels' = collect(out, cam.image_width, cam.image_height)
  /\ rpc' = "collected"
  /\ UNCHANGED <<cam, seed, pass, samples, out, pixels, file, rc>>
  /\ UNCHANGED <<bvhVars, boxVars, libVars>>

\* The accumulation with the previous image kept at its full weight.
accumulate_unweighted(prev, new, n, samples_pp) ==
  LET scaled == [m \in 1..Len(new) |-> QMul(Q(new[m], 1), Q(1, n * samples_pp))]
  IN  IF prev = <<>> THEN scaled
      ELSE [m \in 1..Len(prev) |-> QAdd(prev[m], scaled[m])]

\* The body of the loop of render_ppm after render_pass: the new image is
\* scaled by 1 / (i * samples_pp) and added to (i - 1) / i of the old one.
accumulate(prev, new, n, samples_pp) ==
  LET scaled == [m \in 1..Len(new) |-> QMul(Q(new[m], 1), Q(1, n * samples_pp))]
  IN  IF prev = <<>> THEN scaled
      ELSE [m \in 1..Len(prev) |-> QAdd(QMul(prev[m], Q(n - 1, n)), scaled[m])]

\* Color::ppm_string: what a pixel is written as.
ppm_string(c) == [ppm |-> c]

\* format!("P3\n{} {}\n255\n{s}", image_width, image_height)
ppm_file(px, c) ==
  [image_width |-> c.image_width, image_height |-> c.image_height,
   data |-> [m \in 1..Len(px) |-> ppm_string(px[m])]]

\* The image is accumulated and written to test.ppm.
Accumulate ==
  /\ rpc = "collected"
  /\ \E px \in {accumulate(pixels, new_pixels, pass, cam.samples_pp)} :
       /\ pixels' = px
       /\ file' = ppm_file(px, cam)
  /\ rpc' = IF pass = cam.iterations THEN "end" ELSE "written"
  /\ UNCHANGED <<cam, seed, pass, samples, out, new_pixels, rc>>
  /\ UNCHANGED <<bvhVars, boxVars, libVars>>

(***************************************************************************)
(* Camera::ray_color                                                       *)
(*                                                                         *)
(* A Color is a triple of fractions.  What the Bvh answers is left open:   *)
(* a query misses or hits a primitive of some material, which emits and    *)
(* absorbs or scatters as Material::color_emitted and Material::scatter    *)
(* say.                                                                    *)
(***************************************************************************)

Color_grey(n, d) == <<Q(n, d), Q(n, d), Q(n, d)>>
Color_BLACK == Color_grey(0, 1)
Color_WHITE == Color_grey(1, 1)

\* Color * Color and Color + Color
Color_mul(a, b) == <<QMul(a[1], b[1]), QMul(a[2], b[2]), QMul(a[3], b[3])>>
Color_add(a, b) == <<QAdd(a[1], b[1]), QAdd(a[2], b[2]), QAdd(a[3], b[3])>>

QLess(a, b) == a.n * b.d < b.n * a.d

\* (rcolor.x + rcolor.y + rcolor.z) < 0.0001
faint(rcolor) == QLess(QAdd(QAdd(rcolor[1], rcolor[2]), rcolor[3]), Q(1, 10000))

\* The longest bounce budget of a camera.
MaxBounces == 3

\* The background colours, the emitted colours and the attenuations.
Backgrounds == {<<Q(7, 10), Q(4, 5), Q(1, 1)>>, Color_BLACK}
Emissions == {Color_BLACK, Color_grey(2, 1)}
Attenuations == {Color_grey(1, 2), Color_grey(1, 100), <<Q(1, 1), Q(0, 1), Q(0, 1)>>,
                 Color_BLACK}

\* The materials of the scene: the texture of a Lambertian and the albedo
\* of a Metal are its attenuation, the texture of a DiffuseLight is what it
\* emits.
Materials ==
  {[kind |-> "Lambertian", texture |-> a] : a \in Attenuations}
  \cup {[kind |-> "Metal", albedo |-> Color_grey(1, 2)]}
  \cup {[kind |-> "DiffuseLight", texture |-> e] : e \in Emissions}

\* color_emitted with every material emitting.
color_emitted_by_all(mat) ==
  IF mat.kind = "DiffuseLight" THEN mat.texture ELSE Color_grey(2, 1)

\* Material::color_emitted
Material_color_emitted(mat) ==
  IF mat.kind = "DiffuseLight" THEN mat.texture ELSE Color_BLACK

\* Material::scatter, as far as the attenuation goes; outward tells whether
\* the direction a Metal reflects into leaves the surface.
Material_scatter(mat, outward) ==
  CASE mat.kind = "Lambertian" -> Some(mat.texture)
    [] mat.kind = "Metal" -> IF outward THEN Some(mat.albedo) ELSE None
    [] mat.kind = "DiffuseLight" -> None

\* What one query and the scatter after it answer.
Outcomes ==
  {[hit |-> FALSE]}
  \cup {[hit |-> TRUE, emitted |-> Material_color_emitted(m),
         scatter |-> Material_scatter(m, outward)] :
          m \in Materials, outward \in BOOLEAN}

\* for _ in 0..self.max_bounces with one iteration too many
bounces_left_inclusive(n, max_bounces) == n <= max_bounces

\* for _ in 0..self.max_bounces: n iterations have been started
bounces_left(n, max_bounces) == n < max_bounces

RayColorInit ==
  /\ cam \in {Camera_new(<<1, 1>>, 1, 1, 0, mb, bg) : mb \in 0..MaxBounces, bg \in Backgrounds}
  /\ seed = 0
  /\ rpc = "idle"
  /\ pass = 0
  /\ samples = EmptyFn
  /\ out = EmptyFn
  /\ new_pixels = <<>>
  /\ pixels = <<>>
  /\ file = <<>>
  /\ rc = [pc |-> "loop", bounce |-> 0, queries |-> 0, rcolor |-> Color_WHITE,
           incoming_light |-> Color_BLACK, trace |-> <<>>]

\* One iteration of the loop of ray_color.
RayColorBounce ==
  \E o \in Outcomes :
    /\ rc.pc = "loop"
    /\ bounces_left(rc.bounce, cam.max_bounces)
    /\ rc' =
         IF ~o.hit
         THEN [rc EXCEPT !.pc = "returned", !.bounce = @ + 1, !.queries = @ + 1,
                         !.trace = Append(@, "miss")]
                @@ [ret |-> Color_mul(rc.rcolor, cam.bg)]
         ELSE LET light == Color_add(rc.incoming_light, Color_mul(o.emitted, rc.rcolor))
              IN  IF ~o.scatter.some
                  THEN [rc EXCEPT !.pc = "returned", !.bounce = @ + 1, !.queries = @ + 1,
                                  !.incoming_light = light,
                                  !.trace = Append(@, "absorbed")]
                         @@ [ret |-> light]
                  ELSE LET rcolor == Color_mul(rc.rcolor, o.scatter.v)
                       IN  IF faint(rcolor)
                           THEN [rc EXCEPT !.pc = "returned", !.bounce = @ + 1,
                                           !.queries = @ + 1,
                                           !.incoming_light = light, !.rcolor = rcolor,
                                           !.trace = Append(@, "faint")]
                                  @@ [ret |-> light]
                           ELSE [rc EXCEPT !.bounce = @ + 1, !.queries = @ + 1,
                                           !.incoming_light = light, !.rcolor = rcolor,
                                           !.trace = Append(@, "scattered")]
    /\ UNCHANGED renderVars
    /\ UNCHANGED <<bvhVars, boxVars, libVars>>

\* The loop ends with the budget spent and incoming_light is returned.
RayColorExhausted ==
  /\ rc.pc = "loop"
  /\ ~bounces_left(rc.bounce, cam.max_bounces)
  /\ rc' = [rc EXCEPT !.pc = "returned"] @@ [ret |-> rc.incoming_light]
  /\ UNCHANGED renderVars
  /\ UNCHANGED <<bvhVars, boxVars, libVars>>

(***************************************************************************)
(* AABBox::longest_axis as an operation                                    *)
(***************************************************************************)

\* The axis intervals of the boxes longest_axis is asked about: extents
\* 4, 8, 8, 12 and 64, so that every pattern of ties occurs.
AxisIntervals ==
  {Interval_new(0, 4), Interval_new(0, 8), Interval_new(2, 10),
   Interval_new(0, 12), Interval_new(0, 64)}

AxisInit ==
  /\ boxA \in {AABBox_new(x, y, z) : x \in AxisIntervals, y \in AxisIntervals,
                                     z \in AxisIntervals}
  /\ boxB = AABBox_EMPTY
  /\ boxOp = NoOp

\* boxA.longest_axis()
LongestAxis ==
  /\ boxOp.name = "none"
  /\ boxOp' = [name |-> "longest_axis", res |-> longest_axis(boxA)]
  /\ UNCHANGED <<boxA, boxB>>
  /\ UNCHANGED <<bvhVars, camVars, libVars>>

(***************************************************************************)
(* AABBox::expand and the sum of a box and a vector as operations          *)
(***************************************************************************)

\* The deltas handed to expand: none is negative.
ExpandDeltas == {0, 2}

\* The vectors added to a box.
BoxOffsets == {<<2, 0, 0>>, <<64, 8, 0>>}

\* a = a.expand(delta)
BoxExpand ==
  \E delta \in ExpandDeltas :
    LET res == AABBox_expand(boxA, delta)
    IN  /\ boxOp.dst = "a"
        /\ boxOp.fold < MaxFold
        /\ boxA' = res
        /\ boxB' = boxB
        /\ boxOp' = [name |-> "expand", dst |-> "a", a |-> boxA, res |-> res,
                     fold |-> boxOp.fold + 1]
        /\ UNCHANGED <<bvhVars, camVars, libVars>>

\* a = a + rhs
BoxAdd ==
  \E rhs \in BoxOffsets :
    LET res == AABBox_add(boxA, rhs)
    IN  /\ boxOp.dst = "a"
        /\ boxOp.fold < MaxFold
        /\ boxA' = res
        /\ boxB' = boxB
        /\ boxOp' = [name |-> "add", dst |-> "a", a |-> boxA, res |-> res,
                     fold |-> boxOp.fold + 1]
        /\ UNCHANGED <<bvhVars, camVars, libVars>>

(***************************************************************************)
(* HittableList (src/src/hit.rs)                                           *)
(***************************************************************************)

\* The longest list that is built.
MaxList == 3

\* What is added to a list.
ListEntries == {Catalogue[k] : k \in 1..4}

\* HittableList::default()
ListInit ==
  /\ objects = <<>>
  /\ list_bbox = AABBox_default

\* HittableList::add(obj)
ListAdd ==
  \E obj \in ListEntries :
    /\ Len(objects) < MaxList
    /\ list_bbox' = AABBox_new_enclosing(list_bbox, Hittable_bounding_box(obj))
    /\ objects' = Append(objects, obj)
    /\ UNCHANGED <<call, build>>
    /\ UNCHANGED <<bvhVars, boxVars, camVars>>

\* HittableList::clear()
ListClear ==
  /\ objects' = <<>>
  /\ UNCHANGED <<list_bbox, call, build>>
  /\ UNCHANGED <<bvhVars, boxVars, camVars>>

(***************************************************************************)
(* Camera::get_ray (src/src/ray.rs)                                        *)
(*                                                                         *)
(* The pixel index plus its random offset, and the coordinates of the      *)
(* point drawn in the unit disk, are counted in halves; the vectors they   *)
(* scale have even components, so the products are exact.                  *)
(***************************************************************************)

\* (k / 2) * v for a count of halves k.
HalfMul(k, v) == <<FMul(k, v[1] \div 2), FMul(k, v[2] \div 2), FMul(k, v[3] \div 2)>>

\* The cameras get_ray is called on: the fields it reads.
GetRayCameras ==
  {[center |-> <<2, 2, 8>>, pixel_origin |-> <<-2, 6, -8>>,
    pixel_delta_u |-> <<4, 0, 0>>, pixel_delta_v |-> <<0, -4, 0>>,
    defocus_angle |-> a, defocus_disk_u |-> <<2, 0, 0>>,
    defocus_disk_v |-> <<0, 2, 0>>] : a \in {-1, 0, 1}}

\* random_range(-0.5..0.5) twice, in halves.
PixelOffsets == {<<-1, -1>>, <<-1, 0>>, <<0, -1>>, <<0, 0>>}

\* V3::random_in_unit_disk(), in halves.
UnitDiskPoints == {<<0, 0>>, <<1, 0>>, <<-1, 0>>, <<0, 1>>, <<0, -1>>, <<1, 1>>}

\* The point of the pixel plane get_ray aims at.
pixel_sample(c, pi, pj, offset) ==
  VAdd(VAdd(c.pixel_origin, HalfMul(2 * pi + offset[1], c.pixel_delta_u)),
       HalfMul(2 * pj + offset[2], c.pixel_delta_v))

\* Camera::defocus_disk_sample with p the point drawn in the unit disk.
defocus_disk_sample(c, p) ==
  VAdd(VAdd(c.center, HalfMul(p[1], c.defocus_disk_u)), HalfMul(p[2], c.defocus_disk_v))

\* Camera::get_ray(i, j), here get_ray(pi, pj)
get_ray(c, pi, pj, offset, p) ==
  LET sample     == pixel_sample(c, pi, pj, offset)
      ray_origin == IF c.defocus_angle <= 0 THEN c.center
                    ELSE defocus_disk_sample(c, p)
  IN  Ray_new(c.center, VSub(sample, ray_origin))

\* One call of get_ray.
GetRay ==
  \E c \in GetRayCameras, pi \in 0..1, pj \in 0..1, offset \in PixelOffsets,
     p \in UnitDiskPoints :
    /\ call.name = "none"
    /\ call' = [name |-> "get_ray", cam |-> c, i |-> pi, j |-> pj, offset |-> offset,
                p |-> p, res |-> get_ray(c, pi, pj, offset, p)]
    /\ UNCHANGED <<objects, list_bbox, build>>
    /\ UNCHANGED <<bvhVars, boxVars, camVars>>

(***************************************************************************)
(* The samples taken by Camera::render_ppm                                 *)
(***************************************************************************)

\* The most samples per pixel a camera is configured with, and the
\* largest step size.
MaxSamples == 6

\* Camera::new(.., samples_pp, step_size, ..) for a single pixel
CameraNew ==
  \E n \in 0..MaxSamples, step \in 0..MaxSamples :
    /\ call.name = "none"
    /\ call' = [name |-> "render_ppm", samples_pp |-> n, step_size |-> step,
                cam |-> Camera_new(<<1, 1>>, 1, n, step, 0, 0), i |-> 0, taken |-> 0]
    /\ UNCHANGED <<objects, list_bbox, build>>
    /\ UNCHANGED <<bvhVars, boxVars, camVars>>

\* One turn of for i in 1..=self.iterations: render_pass takes
\* self.samples_pp samples of every pixel.
CameraPass ==
  /\ call.name = "render_ppm"
  /\ call.i < call.cam.iterations
  /\ call' = [call EXCEPT !.i = @ + 1, !.taken = @ + call.cam.samples_pp]
  /\ UNCHANGED <<objects, list_bbox, build>>
  /\ UNCHANGED <<bvhVars, boxVars, camVars>>

(***************************************************************************)
(* BvhNode::new (src/src/bbox.rs)                                          *)
(*                                                                         *)
(* The recursion is followed call by call: todo holds the lists whose      *)
(* call of BvhNode::new is still to run, the next one to run on top, each  *)
(* with the depth of its call; the right half is built before the left.   *)
(***************************************************************************)

\* The longest list handed to BvhNode::new.
MaxBuild == 4

\* The depth of nested calls the thread's stack has room for.
MaxCallDepth == 4

BuildLists ==
  UNION {{[k \in 1..n |-> Catalogue[l[k]]] : l \in [1..n -> 1..4]} : n \in 0..2}
  \cup UNION {{[k \in 1..n |-> Catalogue[l[k]]] :
                 l \in {m \in [1..n -> 1..4] : \A k \in 1..(n - 1) : m[k] <= m[k + 1]}} :
              n \in 3..MaxBuild}

BuildInit ==
  \E objs \in BuildLists :
    build = [pc |-> "run", input |-> objs, todo |-> <<[objects |-> objs, depth |-> 1]>>,
             leaves |-> <<>>]

\* objects.sort_by(...) on the longest axis of the box of the list
BvhNode_sorted(objs) == SortedBy(objs, longest_axis(AABBox_new_containing(objs)))

\* One call of BvhNode::new up to its own recursive calls: a list of one
\* or two becomes leaves (Leaf(Hittable::Empty) beside a single one is not
\* recorded), any other list is sorted and split at len / 2.
BvhNodeNew ==
  /\ build.pc = "run"
  /\ build.todo # <<>>
  /\ LET top  == build.todo[Len(build.todo)]
         rest == SubSeq(build.todo, 1, Len(build.todo) - 1)
         objs == top.objects
         n    == Len(objs)
     IN  IF top.depth > MaxCallDepth
         THEN build' = [build EXCEPT !.pc = "overflow"]
         ELSE IF n \in {1, 2}
         THEN build' = [build EXCEPT !.todo = rest, !.leaves = @ \o objs,
                                     !.pc = IF rest = <<>> THEN "done" ELSE "run"]
         ELSE \E sorted \in {BvhNode_sorted(objs)} :
                build' = [build EXCEPT
                            !.todo = rest
                              \o <<[objects |-> SubSeq(sorted, 1, n \div 2),
                                    depth |-> top.depth + 1],
                                   [objects |-> SubSeq(sorted, (n \div 2) + 1, n),
                                    depth |-> top.depth + 1]>>]
  /\ UNCHANGED <<objects, list_bbox, call>>
  /\ UNCHANGED <<bvhVars, boxVars, camVars>>

(***************************************************************************)
(* Bvh::hits as a function of the caller's stack array                     *)
(*                                                                         *)
(* The same loop as the actions above, run to its end in one evaluation    *)
(* from a stack array of any contents.  st holds the locals: the stack,    *)
(* i, ray_t and hr, and pc tells how the call ended.                       *)
(***************************************************************************)

\* hr = None; i = 1; with the write stack[0] = 0 left out
hits_start_unwritten(stack0, t) ==
  [pc |-> "loop", stack |-> stack0, i |-> 1, ray_t |-> t, hr |-> NoHit]

\* let mut hr = None; let mut i = 1; stack[0] = 0;
hits_start(stack0, t) ==
  [pc |-> "loop", stack |-> [stack0 EXCEPT ![1] = 0], i |-> 1, ray_t |-> t, hr |-> NoHit]

\* One iteration of while i > 0 on the ray: the node on top is popped; an
\* index outside nodes and a write outside the stack array panic.
hits_step(st, ray) ==
  LET j   == st.i - 1
      idx == st.stack[st.i]
  IN  IF idx >= Len(nodes) THEN [st EXCEPT !.pc = "panic", !.i = j]
      ELSE IF nodes[idx + 1].n.some
      THEN ByValue(LAMBDA acc : [st EXCEPT !.i = j, !.ray_t = acc.ray_t, !.hr = acc.hr],
                   LeafScan(nodes[idx + 1].start + 1,
                            nodes[idx + 1].start + nodes[idx + 1].n.v, ray,
                            [ray_t |-> st.ray_t, hr |-> st.hr, recorded |-> <<>>]))
      ELSE ByValue(LAMBDA o :
             LET pushA == o.adist < st.ray_t.max
                 pushB == o.bdist < st.ray_t.max
                 i1    == IF pushA THEN j + 1 ELSE j
                 failA == pushA /\ j >= MAX_BVH_DEPTH
                 failB == pushB /\ i1 >= MAX_BVH_DEPTH
                 s1    == IF pushA /\ ~failA THEN [st.stack EXCEPT ![j + 1] = o.a]
                          ELSE st.stack
             IN  [st EXCEPT
                    !.stack = IF pushB /\ ~failA /\ ~failB
                              THEN [s1 EXCEPT ![i1 + 1] = o.b] ELSE s1,
                    !.i = IF failA THEN j ELSE IF pushB /\ ~failB THEN i1 + 1 ELSE i1,
                    !.pc = IF failA \/ failB THEN "panic" ELSE "loop"],
             PushOrder(nodes[idx + 1].start,
                       Node_hit_dist(nodes[nodes[idx + 1].start + 1], ray, st.ray_t),
                       Node_hit_dist(nodes[nodes[idx + 1].start + 2], ray, st.ray_t)))

\* What a caller may leave in the stack array: indices of nodes an earlier
\* query pushed, or values that index no node.
StackContents == {[k \in 1..MAX_BVH_DEPTH |-> v] : v \in {1, 2, 5}}

\* The lists the trees of the queries with a used stack array are built
\* from: three primitives.
StackInputs == {[k \in 1..3 |-> Catalogue[l[k]]] : l \in IndexLists(3)}

\* A Bvh is about to be built, and the caller's stack array holds what an
\* earlier use has left in it.
StackInit ==
  /\ pc = "new"
  /\ input \in StackInputs
  /\ hittables = <<>>
  /\ nodes = <<>>
  /\ bvh_bbox = AABBox_EMPTY
  /\ r = Ray_new(<<0, 0, 0>>, <<1, 1, 1>>)
  /\ ray_t0 = Interval_EMPTY
  /\ ray_t = Interval_EMPTY
  /\ stack \in StackContents \cup {ZeroStack}
  /\ i = 0
  /\ hr = NoHit
  /\ widx = <<>>
  /\ popped = <<>>
  /\ recorded = <<>>

RECURSIVE hits_loop(_, _)
\* while i > 0 { ... } hr
hits_loop(st, ray) ==
  IF st.pc = "panic" THEN st
  ELSE IF st.i = 0 THEN [st EXCEPT !.pc = "done"]
  ELSE ByValue(LAMBDA next : hits_loop(next, ray), hits_step(st, ray))

\* Bvh::hits(r, ray_t, stack): how the call ends and what it returns.
Bvh_hits(ray, t, stack0) ==
  ByValue(LAMBDA end : [pc |-> end.pc, hr |-> IF end.pc = "done" THEN end.hr ELSE NoHit],
          hits_loop(hits_start(stack0, t), ray))

(***************************************************************************)
(* The checker texture (src/src/material.rs)                               *)
(*                                                                         *)
(* Scales are powers of two and coordinates are whole numbers, so that     *)
(* 1.0 / scale and its product with a coordinate are exact.                *)
(***************************************************************************)

\* Texture::solid(albedo)
Texture_solid(albedo) == [kind |-> "SolidColor", albedo |-> albedo]

\* Texture::checker(scale, odd, even); inv_scale is kept as the scale it
\* is the reciprocal of.
Texture_checker(scale, odd, even) ==
  [kind |-> "Checker", scale |-> scale, odd |-> odd, even |-> even]

\* Material::checker(scale, even, odd)
Material_checker(scale, even, odd) ==
  [kind |-> "Lambertian",
   texture |-> Texture_checker(scale, Texture_solid(even), Texture_solid(odd))]

\* (inv_scale * c).floor() as i64
floor_scaled(scale, c) == c \div scale

\* The % of Rust on i64: the remainder has the sign of the dividend.
i64_rem(a, b) == IF a >= 0 THEN a % b ELSE 0 - ((0 - a) % b)

\* Texture::value of a solid colour or of a checker of solid colours, with
\* checker_value.
Texture_value(t, p) ==
  IF t.kind = "SolidColor" THEN t.albedo
  ELSE LET x == floor_scaled(t.scale, p[1])
           y == floor_scaled(t.scale, p[2])
           z == floor_scaled(t.scale, p[3])
       IN  IF i64_rem(x + y + z, 2) = 0 THEN t.even.albedo ELSE t.odd.albedo

\* The points the texture is asked at, on both sides of every plane where
\* the cell changes.
CheckerPoints == {<<x, y, z>> : x \in -4..3, y \in {-1, 0, 2}, z \in {-3, 0}}
CheckerScales == {1, 2, 4}

\* The texture of Material::checker(scale, even, odd) asked at p.
CheckerValue ==
  \E scale \in CheckerScales, p \in CheckerPoints :
    LET even == Color_WHITE
        odd  == Color_BLACK
    IN  /\ call.name = "none"
        /\ call' = [name |-> "checker", scale |-> scale, p |-> p, even |-> even,
                    odd |-> odd,
                    res |-> Texture_value(Material_checker(scale, even, odd).texture, p)]
        /\ UNCHANGED <<objects, list_bbox, build>>
        /\ UNCHANGED <<bvhVars, boxVars, camVars>>

(***************************************************************************)
(* Specifications                                                          *)
(***************************************************************************)

BvhIdle ==
  /\ pc = "idle"
  /\ input = <<>>
  /\ hittables = <<>>
  /\ nodes = <<>>
  /\ bvh_bbox = AABBox_EMPTY
  /\ r = Ray_new(<<0, 0, 0>>, <<1, 1, 1>>)
  /\ ray_t0 = Interval_EMPTY
  /\ ray_t = Interval_EMPTY
  /\ stack = <<>>
  /\ i = 0
  /\ hr = NoHit
  /\ widx = <<>>
  /\ popped = <<>>
  /\ recorded = <<>>

\* No list, no function application and no BvhNode::new.
ListIdle == objects = <<>> /\ list_bbox = AABBox_default
CallIdle == call = [name |-> "none"]
BuildIdle == build = [pc |-> "idle"]
LibIdle == ListIdle /\ CallIdle /\ BuildIdle

InitBox == BvhIdle /\ LibIdle /\ BoxInit /\ CamIdle
NextBox == BoxNewFromPoints \/ BoxNew \/ BoxConst \/ BoxEnclosing
SpecBox == InitBox /\ [][NextBox]_vars

InitInterval == BvhIdle /\ LibIdle /\ BoxInit /\ CamIdle
NextInterval == IntervalEnclosing
SpecInterval == InitInterval /\ [][NextInterval]_vars

InitSlab == BvhIdle /\ LibIdle /\ BoxInit /\ CamIdle
NextSlab == SlabBoxFromPoints \/ SlabBoxConst \/ SlabHitDist
SpecSlab == InitSlab /\ [][NextSlab]_vars

InitTranslate == BvhIdle /\ LibIdle /\ BoxInit /\ CamIdle
NextTranslate == TranslateNew \/ TranslateHits
SpecTranslate == InitTranslate /\ [][NextTranslate]_vars

InitMetal == BvhIdle /\ LibIdle /\ BoxInit /\ CamIdle
NextMetal == MetalScatter
SpecMetal == InitMetal /\ [][NextMetal]_vars

InitRender == BvhIdle /\ LibIdle /\ BoxInit /\ RenderInit
NextRender == PassBegin \/ SampleTask \/ PixelTask \/ Collect \/ Accumulate
SpecRender == InitRender /\ [][NextRender]_vars

InitRayColor == BvhIdle /\ LibIdle /\ BoxInit /\ RayColorInit
NextRayColor == RayColorBounce \/ RayColorExhausted
SpecRayColor == InitRayColor /\ [][NextRayColor]_vars

\* ray_color is run to its end: the thread that called it keeps running.
SpecRayColorLive == SpecRayColor /\ WF_vars(NextRayColor)

InitAxis == BvhIdle /\ LibIdle /\ AxisInit /\ CamIdle
NextAxis == LongestAxis
SpecAxis == InitAxis /\ [][NextAxis]_vars

\* The constructors of boxes with ordered intervals, and what is made of
\* their results.
InitPad == BvhIdle /\ LibIdle /\ BoxInit /\ CamIdle
NextPad == BoxNewFromPoints \/ BoxNew \/ BoxEnclosing \/ BoxExpand \/ BoxAdd
SpecPad == InitPad /\ [][NextPad]_vars

InitList == BvhIdle /\ ListInit /\ CallIdle /\ BuildIdle /\ BoxInit /\ CamIdle
NextList == ListAdd \/ ListClear
SpecList == InitList /\ [][NextList]_vars

InitGetRay == BvhIdle /\ LibIdle /\ BoxInit /\ CamIdle
NextGetRay == GetRay
SpecGetRay == InitGetRay /\ [][NextGetRay]_vars

InitSamples == BvhIdle /\ LibIdle /\ BoxInit /\ CamIdle
NextSamples == CameraNew \/ CameraPass
SpecSamples == InitSamples /\ [][NextSamples]_vars

InitStack == StackInit /\ LibIdle /\ BoxInit /\ CamIdle
NextStack == BvhNew \/ HitsBegin \/ HitsLeaf \/ HitsInterior \/ HitsReturn
SpecStack == InitStack /\ [][NextStack]_vars

InitBuild == BvhIdle /\ ListIdle /\ CallIdle /\ BuildInit /\ BoxInit /\ CamIdle
NextBuild == BvhNodeNew
SpecBuild == InitBuild /\ [][NextBuild]_vars

\* The thread that called BvhNode::new keeps running.
SpecBuildLive == SpecBuild /\ WF_vars(NextBuild)

InitChecker == BvhIdle /\ LibIdle /\ BoxInit /\ CamIdle
NextChecker == CheckerValue
SpecChecker == InitChecker /\ [][NextChecker]_vars

(***************************************************************************)
(* Properties of the interval and box unions                               *)
(***************************************************************************)

Least(S) == CHOOSE m \in S : \A x \in S : m <= x
Greatest(S) == CHOOSE m \in S : \A x \in S : m >= x

\* The union of two axis intervals as a set of ends.
UnionOf(a, b) == [min |-> Least({a.min, b.min}), max |-> Greatest({a.max, b.max})]

\* C9: for Interval::new_enclosing, EMPTY is the identity and UNIVERSE is
\* absorbing, on both sides, and the result of any two intervals runs from
\* the least of the two minima to the greatest of the two maxima.
IntervalEnclosingLaws ==
  boxOp.name = "interval_new_enclosing" =>
    /\ boxOp.a = Interval_EMPTY => boxOp.res = boxOp.b
    /\ boxOp.b = Interval_EMPTY => boxOp.res = boxOp.a
    /\ boxOp.a = Interval_UNIVERSE => boxOp.res = Interval_UNIVERSE
    /\ boxOp.b = Interval_UNIVERSE => boxOp.res = Interval_UNIVERSE
    /\ boxOp.res = UnionOf(boxOp.a, boxOp.b)

\* Reached: EMPTY united with a finite interval, and two disjoint intervals.
IntervalEnclosingWitness ==
  /\ boxOp.name = "interval_new_enclosing"
  /\ boxOp.a = Interval_EMPTY
  /\ boxOp.b = Interval_new(2, 64)
  /\ boxOp.res = Interval_new(2, 64)

\* C7: new_enclosing(b, b) == b for every box b the constructors produce.
EnclosingIdempotent ==
  (boxOp.name = "new_enclosing" /\ boxOp.a = boxOp.b) => boxOp.res = boxOp.a

\* C8: new_enclosing(a, b) == new_enclosing(b, a), and the union with
\* AABBox::EMPTY on either side is the other box.
EnclosingCommutesAbsorbsEmpty ==
  boxOp.name = "new_enclosing" =>
    /\ boxOp.res = AABBox_new_enclosing(boxOp.b, boxOp.a)
    /\ boxOp.b = AABBox_EMPTY => boxOp.res = boxOp.a
    /\ boxOp.a = AABBox_EMPTY => boxOp.res = boxOp.b

\* C10: on every axis new_enclosing(a, b) is the interval from the least
\* minimum to the greatest maximum of a and b, with no padding added.
EnclosingIsUnion ==
  boxOp.name = "new_enclosing" =>
    /\ boxOp.res.x = UnionOf(boxOp.a.x, boxOp.b.x)
    /\ boxOp.res.y = UnionOf(boxOp.a.y, boxOp.b.y)
    /\ boxOp.res.z = UnionOf(boxOp.a.z, boxOp.b.z)

\* Commutativity alone, which does not depend on padding.
EnclosingCommutes ==
  boxOp.name = "new_enclosing" =>
    boxOp.res = AABBox_new_enclosing(boxOp.b, boxOp.a)

(***************************************************************************)
(* Properties of the slab test                                             *)
(***************************************************************************)

\* The distance at which the ray crosses the plane v of axis k.
Crossing(v, ray, k) == FMulInv(FSub(v, ray.orig[k]), ray.dir[k])

\* The smaller and the larger of the two crossing distances of axis k.
AxisNear(bx, ray, k) ==
  Least({Crossing(bx.min[k], ray, k), Crossing(bx.max[k], ray, k)})
AxisFar(bx, ray, k) ==
  Greatest({Crossing(bx.min[k], ray, k), Crossing(bx.max[k], ray, k)})

NearBound(bx, ray, t) == Greatest({t.min} \cup {AxisNear(bx, ray, k) : k \in 1..3})
FarBound(bx, ray, t) == Least({t.max} \cup {AxisFar(bx, ray, k) : k \in 1..3})

\* C5: hit_dist returns +infinity exactly when it is not the case that the
\* near bound max(ray_t.min, per-axis near distances) is at most the far
\* bound min(ray_t.max, per-axis far distances) with the far bound
\* positive; otherwise it returns max(near bound, 0), which is not
\* negative and not above ray_t.max.  On an axis with a negative direction
\* component the near distance is that of the box's max plane and the far
\* distance that of its min plane.
HitDistIsSlabTest ==
  boxOp.name = "hit_dist" =>
    LET near == NearBound(boxOp.a, boxOp.r, boxOp.ray_t)
        far  == FarBound(boxOp.a, boxOp.r, boxOp.ray_t)
    IN  /\ boxOp.res = Inf <=> ~(near <= far /\ far > 0)
        /\ boxOp.res # Inf =>
             /\ boxOp.res = Greatest({near, 0})
             /\ boxOp.res >= 0
             /\ boxOp.res <= boxOp.ray_t.max
        /\ \A k \in 1..3 :
             (boxOp.r.dir[k] < 0 /\ boxOp.a.min[k] <= boxOp.a.max[k]) =>
               /\ AxisNear(boxOp.a, boxOp.r, k) = Crossing(boxOp.a.max[k], boxOp.r, k)
               /\ AxisFar(boxOp.a, boxOp.r, k) = Crossing(boxOp.a.min[k], boxOp.r, k)

\* Reached: a ray that runs in the negative x direction from beyond the max
\* plane of a thin, padded box, enters it through that plane at distance 2
\* and is reported at that distance.
HitDistWitness ==
  /\ boxOp.name = "hit_dist"
  /\ boxOp.a = AABBox_new_from_points(<<0, 0, 0>>, <<0, 8, 0>>)
  /\ boxOp.r = Ray_new(<<4, 4, 0>>, <<-1, 1, -1>>)
  /\ boxOp.ray_t = Interval_new(0, Inf)
  /\ boxOp.res = Crossing(boxOp.a.max[1], boxOp.r, 1)
  /\ boxOp.res = 2

\* The origin is strictly outside the extent of axis k and the direction on
\* that axis points away from it.
AimedAway(bx, ray, k) ==
  \/ ray.orig[k] < bx.min[k] /\ ray.dir[k] < 0
  \/ ray.orig[k] > bx.max[k] /\ ray.dir[k] > 0

\* C6: for every box, a ray whose origin is strictly outside the padded
\* extent on some axis and aimed away on that axis is a miss of the slab
\* test (AABBox::hit_dist of bvh.rs, AABBox::hits of bbox.rs) for every
\* query interval.
AimedAwayMisses ==
  (boxOp.name = "hit_dist" /\ \E k \in 1..3 : AimedAway(boxOp.a, boxOp.r, k)) =>
    boxOp.res = Inf /\ ~boxOp.hits

\* Where the slab test does reject such a ray: when the box's interval on
\* that axis is not empty (min <= max), hit_dist returns +infinity for
\* every query interval, and the boolean test of bbox.rs returns false for
\* every query interval with a positive min.
AimedAwayMissesNonEmpty ==
  (/\ boxOp.name = "hit_dist"
   /\ \E k \in 1..3 : /\ AimedAway(boxOp.a, boxOp.r, k)
                      /\ boxOp.a.min[k] <= boxOp.a.max[k]) =>
    /\ boxOp.res = Inf
    /\ boxOp.ray_t.min > 0 => ~boxOp.hits

\* Reached: the origin is beyond the max plane of x only and the ray runs on
\* in x; all of the ray's line passes through the box at negative distances,
\* the query interval admits them, and hit_dist reports a miss.
AimedAwayWitness ==
  /\ boxOp.name = "hit_dist"
  /\ boxOp.a = AABBox_new_from_points(<<0, 0, 0>>, <<2, 8, 0>>)
  /\ boxOp.r = Ray_new(<<12, 4, 0>>, <<2, 1, 2>>)
  /\ boxOp.ray_t = Interval_UNIVERSE
  /\ AimedAway(boxOp.a, boxOp.r, 1)
  /\ boxOp.res = Inf

(***************************************************************************)
(* Properties of Translate                                                 *)
(***************************************************************************)

\* The hit of the inner primitive by the ray with its origin moved back.
InnerHit(s, ray, t) ==
  Hittable_hits(s.inner, Ray_new(VSub(ray.orig, s.offset), ray.dir), t)

\* The box bx with every bound moved by off, and nothing else done to it.
ShiftedBox(bx, off) ==
  [x |-> Interval_add(bx.x, off[1]), y |-> Interval_add(bx.y, off[2]),
   z |-> Interval_add(bx.z, off[3]),
   min |-> <<FAdd(bx.min[1], off[1]), FAdd(bx.min[2], off[2]), FAdd(bx.min[3], off[3]), 0>>,
   max |-> <<FAdd(bx.max[1], off[1]), FAdd(bx.max[2], off[2]), FAdd(bx.max[3], off[3]), 0>>]

\* The part of C11 about the hit: Translate::hits hits exactly when the
\* inner primitive is hit by the moved ray, with the same distance, normal
\* and material, at the inner position plus the offset.
TranslateHitIsInnerHit ==
  boxOp.name = "translate_hits" =>
    LET inner == InnerHit(boxOp.s, boxOp.r, boxOp.ray_t)
    IN  /\ boxOp.res.hit = inner.hit
        /\ boxOp.res.hit =>
             /\ boxOp.res.t = inner.t
             /\ boxOp.res.normal = inner.normal
             /\ boxOp.res.mat = inner.mat
             /\ boxOp.res.p = VAdd(inner.p, boxOp.s.offset)

\* C11: Translate::hits returns a hit exactly when the inner primitive is
\* hit by the ray with its origin moved by -offset, with the same distance,
\* normal and material and the inner position plus offset; and the bounding
\* box of the Translate is the inner box shifted by offset.
TranslateIsShiftedInner ==
  boxOp.name = "translate_hits" =>
    /\ TranslateHitIsInnerHit
    /\ boxOp.s.bbox = ShiftedBox(Hittable_bounding_box(boxOp.s.inner), boxOp.s.offset)

\* Reached: a quad hit through its Translate at the distance and with the
\* material of the inner hit, two units further along x and y.
TranslateHitWitness ==
  /\ boxOp.name = "translate_hits"
  /\ boxOp.s.inner = Catalogue[1]
  /\ boxOp.s.offset = <<2, 2, 0>>
  /\ boxOp.r = Ray_new(<<2, 2, 0>>, <<1, 1, 2>>)
  /\ boxOp.res.hit
  /\ boxOp.res.t = 4
  /\ boxOp.res.p = <<6, 6, 8>>
  /\ boxOp.res.mat = 1

\* Reached: a quad moved to the plane z = 64; the shifted box is thinner
\* than delta on z and the Translate's box is padded again.
TranslateRepaddedWitness ==
  /\ boxOp.name = "translate_hits"
  /\ boxOp.s.inner = Catalogue[1]
  /\ boxOp.s.offset = <<0, 0, 56>>
  /\ Interval_size(ShiftedBox(Hittable_bounding_box(boxOp.s.inner), boxOp.s.offset).z) < Delta
  /\ boxOp.s.bbox.z.min < ShiftedBox(Hittable_bounding_box(boxOp.s.inner), boxOp.s.offset).z.min

(***************************************************************************)
(* Properties of Metal                                                     *)
(***************************************************************************)

\* C12: a Metal with fuzz = 0 reflects exactly: whatever the length of the
\* incoming direction d, when the ray is scattered the direction of the
\* scattered ray equals d - 2*(d.n)*n.
MetalReflectsExactly ==
  (boxOp.name = "metal_scatter" /\ boxOp.fuzz = 0 /\ boxOp.res.some) =>
    boxOp.res.v.ray.dir = V3_reflect(boxOp.dir, boxOp.normal)

\* C12 as the code has it: with fuzz = 0, when the ray is scattered the
\* direction of the scattered ray is the unit vector of d - 2*(d.n)*n, and
\* the ray starts at the hit position with the albedo as attenuation.
MetalReflectsNormalised ==
  (boxOp.name = "metal_scatter" /\ boxOp.fuzz = 0 /\ boxOp.res.some) =>
    /\ boxOp.res.v.ray.dir = V3_unit_vector(V3_reflect(boxOp.dir, boxOp.normal))
    /\ boxOp.res.v.ray.orig = <<0, 0, 0>>
    /\ boxOp.res.v.attenuation = 1

\* Reached: an oblique direction of length 2 is mirrored at the plane
\* z = 0 and scattered with length 1.
MetalWitness ==
  /\ boxOp.name = "metal_scatter"
  /\ boxOp.fuzz = 0
  /\ boxOp.dir = <<0, 72, -96>>
  /\ boxOp.normal = <<0, 0, 60>>
  /\ boxOp.res.some
  /\ V3_reflect(boxOp.dir, boxOp.normal) = <<0, 72, 96>>
  /\ boxOp.res.v.ray.dir = <<0, 36, 48>>

(***************************************************************************)
(* Properties of the render loop                                           *)
(***************************************************************************)

\* The pixel (column, row) that entry n of a row-major image belongs to.
PixelOf(n) == <<(n - 1) % cam.image_width, (n - 1) \div cam.image_width>>

RECURSIVE SampleSum(_, _, _, _)
\* The sum of the first n sample radiances of pixel (k, j) in pass p.
SampleSum(p, j, k, n) ==
  IF n = 0 THEN 0 ELSE Radiance(seed, p, j, k, n - 1) + SampleSum(p, j, k, n - 1)

RECURSIVE PassesSum(_, _, _)
\* The sum of all sample radiances of pixel (k, j) in the passes 1..p.
PassesSum(p, j, k) ==
  IF p = 0 THEN 0 ELSE SampleSum(p, j, k, cam.samples_pp) + PassesSum(p - 1, j, k)

\* C13: after pass i of render_ppm the accumulated value of every pixel is
\* the arithmetic mean of all i * samples_pp sample radiances computed for
\* that pixel in the passes 1..i, and this accumulated image is what is
\* written after each pass.
AccumulatedIsMean ==
  rpc \in {"written", "end"} =>
    /\ Len(pixels) = cam.image_width * cam.image_height
    /\ \A n \in 1..Len(pixels) :
         pixels[n] = Q(PassesSum(pass, PixelOf(n)[2], PixelOf(n)[1]), pass * cam.samples_pp)
    /\ file = ppm_file(pixels, cam)

\* Reached: the third pass is accumulated, and the mean of a pixel differs
\* from the mean of the samples of the third pass alone.
AccumulatedWitness ==
  /\ rpc = "written"
  /\ pass = 3
  /\ cam.iterations = 4
  /\ pixels[2] # Q(new_pixels[2], cam.samples_pp)
  /\ pixels[2] = Q(PassesSum(3, 0, 1), 3)

\* C14: whatever the order in which the sample and pixel tasks of a pass
\* run, render_pass returns image_width * image_height entries, entry
\* j * image_width + i being the result of pixel (i, j); the entry of a
\* pixel is produced once, by the task of that pixel, and is not written
\* again; and no task changes the Bvh, the primitives or the camera.
RenderPassDeterministic ==
  /\ [](rpc = "collected" =>
         /\ Len(new_pixels) = cam.image_width * cam.image_height
         /\ \A j \in 0..(cam.image_height - 1), k \in 0..(cam.image_width - 1) :
              new_pixels[j * cam.image_width + k + 1]
                = SampleSum(pass, j, k, cam.samples_pp))
  /\ [][rpc = "tasks" =>
         /\ \A px \in DOMAIN out : px \in DOMAIN out' /\ out'[px] = out[px]
         /\ Cardinality(DOMAIN out') <= Cardinality(DOMAIN out) + 1
         /\ UNCHANGED <<cam, hittables, nodes, bvh_bbox>>]_vars

\* Reached: a pass over three by two pixels is collected; entry 4 is the
\* first pixel of the second row, whose result differs from that of the
\* second pixel of the first row, which is entry 2.
RenderPassWitness ==
  /\ rpc = "collected"
  /\ cam.image_width = 3
  /\ cam.image_height = 2
  /\ cam.samples_pp = 2
  /\ new_pixels[4] = out[<<1, 0>>]
  /\ new_pixels[4] # out[<<0, 1>>]
  /\ new_pixels[2] = out[<<0, 1>>]

(***************************************************************************)
(* Properties of ray_color                                                 *)
(***************************************************************************)

\* Every iteration but the last one scattered the ray with a throughput
\* that is not faint; the last one is the first that did not, unless the
\* budget ran out.
StoppedAtFirst ==
  /\ \A n \in 1..(Len(rc.trace) - 1) : rc.trace[n] = "scattered"
  /\ rc.pc = "loop" => \A n \in 1..Len(rc.trace) : rc.trace[n] = "scattered"
  /\ (rc.pc = "loop" /\ rc.bounce > 0) => ~faint(rc.rcolor)
  /\ rc.pc = "returned" =>
       \/ Len(rc.trace) > 0 /\ rc.trace[Len(rc.trace)] \in {"miss", "absorbed", "faint"}
       \/ Len(rc.trace) = cam.max_bounces

\* C15: ray_color always terminates and makes at most max_bounces queries
\* for one camera ray; it stops at the first of a miss, an absorbing
\* scatter, a throughput whose component sum is below 0.0001, and the
\* exhaustion of the bounce budget.
RayColorTerminates ==
  /\ <>(rc.pc = "returned")
  /\ [](/\ rc.queries <= cam.max_bounces
         /\ rc.queries = Len(rc.trace)
         /\ StoppedAtFirst)

\* Reached: two bounces scatter, the third leaves a faint throughput and
\* ends the walk with the budget of three just spent.
RayColorWitness ==
  /\ rc.pc = "returned"
  /\ cam.max_bounces = 3
  /\ rc.trace = <<"scattered", "scattered", "faint">>
  /\ rc.queries = 3

\* Reached: the budget runs out with the ray still scattered.
RayColorBudgetWitness ==
  /\ rc.pc = "returned"
  /\ cam.max_bounces = 2
  /\ rc.trace = <<"scattered", "scattered">>
  /\ rc.ret = rc.incoming_light

(***************************************************************************)
(* Properties of the tree and of the traversal                             *)
(***************************************************************************)

built == pc \in {"built", "loop", "done", "panic"}

\* The same primitives with the same multiplicities.
IsPermutation(a, b) ==
  /\ Len(a) = Len(b)
  /\ \A k \in 1..Len(a) :
       Cardinality({m \in 1..Len(a) : a[m] = a[k]})
         = Cardinality({m \in 1..Len(b) : b[m] = a[k]})

RECURSIVE LeavesBelow(_)
\* The leaves of the subtree of node idx (an index of the code).
LeavesBelow(idx) ==
  IF nodes[idx + 1].n.some THEN {idx}
  ELSE LeavesBelow(nodes[idx + 1].start) \cup LeavesBelow(nodes[idx + 1].start + 1)

\* The indices into the backing array a leaf refers to: [start, start + n).
LeafRange(idx) == nodes[idx + 1].start .. (nodes[idx + 1].start + nodes[idx + 1].n.v - 1)

PrimsBelow(idx) == UNION {LeafRange(l) : l \in LeavesBelow(idx)}

\* The box (min, max) encloses the box inner on all three axes.
Encloses(bmin, bmax, imin, imax) ==
  \A k \in 1..3 : bmin[k] <= imin[k] /\ imax[k] <= bmax[k]

LeavesPartitionArray ==
  built =>
    /\ IsPermutation(input, hittables)
    /\ \A l \in LeavesBelow(0) :
         /\ nodes[l + 1].start >= 0
         /\ nodes[l + 1].n.v >= 0
         /\ nodes[l + 1].start + nodes[l + 1].n.v <= Len(input)
    /\ \A l1, l2 \in LeavesBelow(0) :
         l1 # l2 => LeafRange(l1) \cap LeafRange(l2) = {}
    /\ PrimsBelow(0) = 0..(Len(input) - 1)

\* Reached: five primitives, reordered by the sorts, in four leaves.
LeavesPartitionWitness ==
  /\ pc = "built"
  /\ Len(input) = 5
  /\ hittables # input
  /\ Cardinality(LeavesBelow(0)) = 4

RECURSIVE TreeBelow(_, _)
\* The nodes of the subtree of node idx, each paired with its depth, the
\* depth of idx being d.
TreeBelow(idx, d) ==
  IF nodes[idx + 1].n.some THEN {<<idx, d>>}
  ELSE {<<idx, d>>} \cup TreeBelow(nodes[idx + 1].start, d + 1)
                    \cup TreeBelow(nodes[idx + 1].start + 1, d + 1)

\* C19: in every tree built by Bvh::new from N >= 1 primitives no node lies
\* deeper than MAX_BVH_DEPTH; a node is a leaf exactly when its range holds
\* one primitive or its depth is MAX_BVH_DEPTH; a range of one primitive is
\* a leaf of count 1; every leaf holds at least one primitive; and a leaf
\* of more than one primitive lies at depth MAX_BVH_DEPTH.
TreeDepthAndLeaves ==
  (built /\ Len(input) >= 1) =>
    /\ {p[1] : p \in TreeBelow(0, 0)} = 0..(Len(nodes) - 1)
    /\ \A p \in TreeBelow(0, 0) :
         LET node  == nodes[p[1] + 1]
             range == Cardinality(PrimsBelow(p[1]))
         IN  /\ p[2] <= MAX_BVH_DEPTH
             /\ node.n.some <=> (range = 1 \/ p[2] = MAX_BVH_DEPTH)
             /\ range = 1 => node.n = Some(1)
             /\ node.n.some => node.n.v >= 1
             /\ (node.n.some /\ node.n.v > 1) => p[2] = MAX_BVH_DEPTH

\* Reached: a tree over five primitives whose nodes at depth 1 are interior
\* and which has, at the depth limit, a leaf of one and a leaf of two.
TreeDepthWitness ==
  /\ pc = "built"
  /\ Len(input) = 5
  /\ \E p, q, u \in TreeBelow(0, 0) :
       /\ p[2] < MAX_BVH_DEPTH /\ p[1] # 0 /\ ~nodes[p[1] + 1].n.some
       /\ q[2] = MAX_BVH_DEPTH /\ nodes[q[1] + 1].n = Some(1)
       /\ u[2] = MAX_BVH_DEPTH /\ nodes[u[1] + 1].n = Some(2)

\* Reached: a leaf of one primitive above the depth limit, its sibling
\* being interior.
TreeShallowLeafWitness ==
  /\ pc = "built"
  /\ \E p, q \in TreeBelow(0, 0) :
       /\ p[2] < MAX_BVH_DEPTH /\ nodes[p[1] + 1].n = Some(1)
       /\ q[2] = p[2] /\ ~nodes[q[1] + 1].n.some

\* The box of node idx with its axis intervals.
NodeBox(idx) ==
  RawBox(Interval_new(nodes[idx + 1].min[1], nodes[idx + 1].max[1]),
         Interval_new(nodes[idx + 1].min[2], nodes[idx + 1].max[2]),
         Interval_new(nodes[idx + 1].min[3], nodes[idx + 1].max[3]))

\* The least index of the range of node idx (0 when the range is empty).
RangeStart(idx) == IF PrimsBelow(idx) = {} THEN 0 ELSE Least(PrimsBelow(idx))

\* C20: for every interior node over a range of n primitives the left
\* child covers the first n div 2 primitives of the range and the right
\* child the other n - n div 2, and on the axis the node was split along
\* (the longest axis of its box) the box minimum of every primitive under
\* the left child is at most that of every primitive under the right one.
ChildrenHalveSortedRange ==
  built =>
    \A idx \in 0..(Len(nodes) - 1) :
      ~nodes[idx + 1].n.some =>
        LET n     == Cardinality(PrimsBelow(idx))
            s     == RangeStart(idx)
            left  == PrimsBelow(nodes[idx + 1].start)
            right == PrimsBelow(nodes[idx + 1].start + 1)
            axis  == longest_axis(NodeBox(idx))
        IN  /\ PrimsBelow(idx) = s..(s + n - 1)
            /\ left = s..(s + (n \div 2) - 1)
            /\ right = (s + (n \div 2))..(s + n - 1)
            /\ Cardinality(right) - Cardinality(left) \in {0, 1}
            /\ \A a \in left, b \in right :
                 SortKey(hittables[a + 1], axis) <= SortKey(hittables[b + 1], axis)

\* Reached: the root over five primitives, split two and three, whose sort
\* moved a primitive from one half of the input to the other.
ChildrenHalveWitness ==
  /\ pc = "built"
  /\ Len(input) = 5
  /\ ~nodes[1].n.some
  /\ Cardinality(PrimsBelow(nodes[1].start)) = 2
  /\ Cardinality(PrimsBelow(nodes[1].start + 1)) = 3
  /\ {hittables[k] : k \in 1..2} # {input[k] : k \in 1..2}
  /\ \E a \in 1..2, b \in 3..5 :
       SortKey(hittables[a], longest_axis(NodeBox(0)))
         < SortKey(hittables[b], longest_axis(NodeBox(0)))

\* The box-hit distance of node idx for the running query.
ChildDist(idx) == Node_hit_dist(nodes[idx + 1], r, ray_t)

\* C16: in Bvh::hits, when an interior node is popped and both of its
\* children are pushed, the child with the smaller box-hit distance is
\* pushed last, so that it is popped before the child with the larger one.
NearerChildPushedLast ==
  [][(/\ pc = "loop" /\ pc' = "loop"
      /\ i > 0
      /\ ~nodes[stack[i] + 1].n.some
      /\ i' = i + 1)
     => ChildDist(stack'[i']) <= ChildDist(stack'[i' - 1])]_vars

\* C17: during one Bvh::hits query ray_t.max never increases; whenever a
\* hit is recorded ray_t.max is set to its distance; every recorded hit is
\* no farther than the one before it, so the hit returned is the last one
\* recorded and the closest one found.
FarBoundShrinks ==
  pc \in {"loop", "done", "panic"} =>
    /\ \A n \in 1..Len(recorded) :
         /\ recorded[n].max = recorded[n].t
         /\ recorded[n].t <= (IF n = 1 THEN ray_t0.max ELSE recorded[n - 1].t)
    /\ ray_t.min = ray_t0.min
    /\ ray_t.max = (IF recorded = <<>> THEN ray_t0.max ELSE recorded[Len(recorded)].max)
    /\ hr.hit = (recorded # <<>>)
    /\ hr.hit =>
         /\ hr.t = recorded[Len(recorded)].t
         /\ \A n \in 1..Len(recorded) : hr.t <= recorded[n].t

\* Reached: a query that recorded a hit and then a closer one, and returned
\* the closer one.
FarBoundWitness ==
  /\ pc = "done"
  /\ Len(recorded) >= 2
  /\ recorded[2].t < recorded[1].t
  /\ hr.t = recorded[2].t

\* No node index is popped twice, and no more nodes are popped than there
\* are.
NoNodePoppedTwice ==
  /\ \A m, n \in 1..Len(popped) : m # n => popped[m] # popped[n]
  /\ Len(popped) <= Len(nodes)

\* C18: in one Bvh::hits query on a tree built by Bvh::new no node index
\* is popped more than once, and the loop ends with an empty stack after
\* at most as many iterations as there are nodes, returning the best hit
\* found or none.
\* The loop runs once per popped node, so it ends when the pops are bounded
\* and it is left through its condition only.
TraversalVisitsOnceAndEnds ==
  pc \in {"loop", "done", "panic"} =>
    /\ NoNodePoppedTwice
    /\ pc # "panic"
    /\ pc = "done" => (i = 0 /\ hr.hit = (recorded # <<>>))

\* C2: every write to the traversal stack in Bvh::hits uses an index
\* strictly below MAX_BVH_DEPTH.
StackWritesInBounds ==
  \A k \in 1..Len(widx) : widx[k] < MAX_BVH_DEPTH

\* C1: for a non-empty list, Bvh::hits returns a hit exactly when
\* HittableList::hits over the same primitives does, at the same distance.
BvhMatchesBruteForce ==
  (pc = "done" /\ Len(input) > 0) =>
    LET brute == HittableList_hits(input, r, ray_t0)
    IN  /\ hr.hit = brute.hit
        /\ hr.hit => hr.t = brute.t

(***************************************************************************)
(* Properties of longest_axis                                              *)
(***************************************************************************)

\* The extent of box bx on axis k, as size() computes it.
Extent(bx, k) == Interval_size(axis_interval(bx, k))

\* No axis of bx is longer than axis k.
Maximal(bx, k) == \A m \in 0..2 : Extent(bx, m) <= Extent(bx, k)

\* C21 as stated: longest_axis returns an axis of maximal extent, x when x
\* is among the longest axes, and z when z is and x is not.
LongestAxisPrefersX ==
  boxOp.name = "longest_axis" =>
    /\ Maximal(boxA, boxOp.res)
    /\ Maximal(boxA, 0) => boxOp.res = 0
    /\ (~Maximal(boxA, 0) /\ Maximal(boxA, 2)) => boxOp.res = 2

\* C21: longest_axis returns an axis of maximal extent, z when z is among
\* the longest axes, and y when y is and z is not; x only when it is
\* strictly the longest.
LongestAxisPrefersZ ==
  boxOp.name = "longest_axis" =>
    /\ Maximal(boxA, boxOp.res)
    /\ Maximal(boxA, 2) => boxOp.res = 2
    /\ (~Maximal(boxA, 2) /\ Maximal(boxA, 1)) => boxOp.res = 1

\* Reached: x and y tie for the longest axis, z is shorter, and y is
\* returned.
LongestAxisWitness ==
  /\ boxOp.name = "longest_axis"
  /\ Extent(boxA, 0) = Extent(boxA, 1)
  /\ Extent(boxA, 2) < Extent(boxA, 0)
  /\ boxOp.res = 1

\* Reached: the three axes tie and z is returned.
LongestAxisAllTieWitness ==
  /\ boxOp.name = "longest_axis"
  /\ Extent(boxA, 0) = Extent(boxA, 1)
  /\ Extent(boxA, 1) = Extent(boxA, 2)
  /\ boxOp.res = 2

(***************************************************************************)
(* Properties of the padding                                               *)
(***************************************************************************)

\* The operations that hand out a box.
BoxMakers == {"new_from_points", "new", "new_enclosing", "expand", "add"}

\* The SIMD vectors of bx are the ends of its three intervals.
SimdMirrors(bx) ==
  /\ bx.min = <<bx.x.min, bx.y.min, bx.z.min, 0>>
  /\ bx.max = <<bx.x.max, bx.y.max, bx.z.max, 0>>

\* In every box handed out the SIMD vectors are the ends of the intervals.
SimdMirrorsIntervals ==
  boxOp.name \in BoxMakers => SimdMirrors(boxOp.res)

\* C22: every box made by new_from_points, by new on ordered intervals, by
\* new_enclosing of such boxes, by expand with a non-negative delta or by
\* adding a vector measures at least delta on every axis, and its SIMD
\* vectors are the ends of its intervals.
EveryAxisPadded ==
  boxOp.name \in BoxMakers =>
    /\ \A k \in 0..2 : Extent(boxOp.res, k) >= Delta
    /\ SimdMirrors(boxOp.res)

\* Reached: a box of new_from_points over two points with the same x is
\* thinner than delta on x after its padding.
ThinAfterPaddingWitness ==
  /\ boxOp.name = "new_from_points"
  /\ Extent(boxOp.res, 0) < Delta

\* Reached: a box moved by a vector is thinner than delta on an axis.
ThinAfterAddWitness ==
  /\ boxOp.name = "add"
  /\ \E k \in 0..2 : Extent(boxOp.res, k) < Delta

(***************************************************************************)
(* Properties of HittableList                                              *)
(***************************************************************************)

\* The three intervals of a box.
BoxIntervals(bx) == <<bx.x, bx.y, bx.z>>

\* C23: after any sequence of add and clear from an empty list, the cached
\* box of the list is the enclosing union of the boxes of the entries that
\* are in the list, AABBox::EMPTY when there is none (compared by their
\* intervals).
ListBoxIsUnionOfEntries ==
  BoxIntervals(list_bbox) = BoxIntervals(AABBox_new_containing(objects))

\* The cached box encloses the box of every entry of the list.
ListBoxCoversEntries ==
  \A k \in 1..Len(objects) :
    Encloses(list_bbox.min, list_bbox.max,
             Hittable_bounding_box(objects[k]).min,
             Hittable_bounding_box(objects[k]).max)

\* Reached: a list that was cleared and holds one entry again, its cached
\* box being wider than the box of that entry.
ListClearedWitness ==
  /\ Len(objects) = 1
  /\ BoxIntervals(list_bbox) # BoxIntervals(AABBox_new_containing(objects))

(***************************************************************************)
(* Properties of a path that misses                                        *)
(***************************************************************************)

\* ray_color returned because the last query missed.
ReturnedOnMiss ==
  /\ rc.pc = "returned"
  /\ rc.trace # <<>>
  /\ rc.trace[Len(rc.trace)] = "miss"

\* A path that goes on has gathered no light: what emits does not scatter.
NoLightWhileWalking ==
  rc.pc = "loop" => rc.incoming_light = Color_BLACK

\* C24: when the ray misses the scene at some bounce, ray_color returns the
\* emitted light gathered on the earlier bounces plus the background colour
\* times the throughput.
MissAddsBackground ==
  ReturnedOnMiss =>
    rc.ret = Color_add(rc.incoming_light, Color_mul(rc.rcolor, cam.bg))

\* Reached: a miss on the third bounce, after two scatters that dimmed the
\* throughput, under a background that is not black.
MissWitness ==
  /\ ReturnedOnMiss
  /\ Len(rc.trace) = 3
  /\ cam.bg # Color_BLACK
  /\ rc.rcolor # Color_WHITE
  /\ rc.ret # Color_BLACK

(***************************************************************************)
(* Properties of get_ray                                                   *)
(***************************************************************************)

\* The point of the pixel plane of the recorded call of get_ray.
CallSample == pixel_sample(call.cam, call.i, call.j, call.offset)

\* With no defocus the ray starts at the centre and aims at the sample.
GetRayFromCentre ==
  (call.name = "get_ray" /\ call.cam.defocus_angle <= 0) =>
    /\ call.res.orig = call.cam.center
    /\ VAdd(call.res.orig, call.res.dir) = CallSample

\* C25: with defocus_angle > 0 the ray of get_ray starts at the point drawn
\* on the defocus disk, with defocus_angle <= 0 at the camera centre, and
\* in both cases origin + direction is the jittered pixel-plane sample.
GetRayAimsAtSample ==
  call.name = "get_ray" =>
    /\ call.res.orig = IF call.cam.defocus_angle > 0
                       THEN defocus_disk_sample(call.cam, call.p)
                       ELSE call.cam.center
    /\ VAdd(call.res.orig, call.res.dir) = CallSample

\* Reached: a camera with defocus, a point of the disk away from its
\* centre, and a ray that starts at the camera centre all the same.
GetRayDefocusWitness ==
  /\ call.name = "get_ray"
  /\ call.cam.defocus_angle > 0
  /\ defocus_disk_sample(call.cam, call.p) # call.cam.center
  /\ call.res.orig = call.cam.center

(***************************************************************************)
(* Properties of the sample count                                          *)
(***************************************************************************)

\* render_ppm has run all its passes.
AllPassesDone == call.name = "render_ppm" /\ call.i = call.cam.iterations

\* With step size 0 or step size >= N there is one pass of N samples.
OnePassWhenStepIsWide ==
  (AllPassesDone /\ (call.step_size = 0 \/ call.step_size >= call.samples_pp)) =>
    /\ call.cam.iterations = 1
    /\ call.taken = call.samples_pp

\* C26: for every configured samples-per-pixel N and every step size the
\* samples taken per pixel over all passes of render_ppm are N, and with
\* step size 0 or step size >= N there is exactly one pass of N samples.
AllSamplesTaken ==
  AllPassesDone =>
    /\ call.taken = call.samples_pp
    /\ (call.step_size = 0 \/ call.step_size >= call.samples_pp) =>
         call.cam.iterations = 1

\* Reached: five samples per pixel in steps of two end after two passes
\* with four samples taken.
SamplesDroppedWitness ==
  /\ AllPassesDone
  /\ call.samples_pp = 5
  /\ call.step_size = 2
  /\ call.i = 2
  /\ call.taken = 4

(***************************************************************************)
(* Properties of the size of the tree                                      *)
(***************************************************************************)

\* For a list that is not empty the tree has at most 2 * N - 1 nodes.
NodeCountBoundedNonEmpty ==
  (built /\ Len(input) >= 1) => Len(nodes) <= 2 * Len(input) - 1

\* C27: Bvh::new ends for every list, the empty one included, and creates
\* at most 2 * max(N, 1) - 1 nodes for N primitives: one node for an empty
\* or a one-element list.
NodeCountBounded ==
  built =>
    Len(nodes) <= 2 * (IF Len(input) >= 1 THEN Len(input) ELSE 1) - 1

\* Reached: the tree of the empty list, complete down to MAX_BVH_DEPTH,
\* every leaf holding nothing.
EmptyTreeWitness ==
  /\ pc = "built"
  /\ input = <<>>
  /\ Len(nodes) > 1
  /\ \A p \in TreeBelow(0, 0) : nodes[p[1] + 1].n.some <=> p[2] = MAX_BVH_DEPTH
  /\ \A l \in LeavesBelow(0) : nodes[l + 1].n = Some(0)

(***************************************************************************)
(* Properties of BvhNode::new                                              *)
(***************************************************************************)

\* Once BvhNode::new has returned, the leaves hold the input, each
\* hittable once.
BuildKeepsEveryHittable ==
  build.pc = "done" => IsPermutation(build.input, build.leaves)

\* For a list that is not empty the calls never nest deeper than the list
\* is long.
BuildOfNonEmptyStaysShallow ==
  (build.pc # "idle" /\ build.input # <<>>) =>
    /\ build.pc # "overflow"
    /\ \A k \in 1..Len(build.todo) : build.todo[k].depth <= Len(build.input)

\* C28: BvhNode::new returns for every list, the empty one included, and
\* every input hittable is then in exactly one leaf.
BuildTerminates ==
  /\ <>(build.pc = "done")
  /\ [](build.pc = "done" => IsPermutation(build.input, build.leaves))

\* Reached: the call for the empty list has called itself for the empty
\* list until the stack was full.
BuildOverflowWitness ==
  /\ build.pc = "overflow"
  /\ build.input = <<>>
  /\ build.leaves = <<>>

\* Reached: four hittables, reordered by the sorts, all in leaves.
BuildDoneWitness ==
  /\ build.pc = "done"
  /\ Len(build.input) = 4
  /\ build.leaves # build.input

(***************************************************************************)
(* Properties of the caller's stack array                                  *)
(***************************************************************************)

CellIsEven ==
  (call.p[1] \div call.scale + call.p[2] \div call.scale + call.p[3] \div call.scale) % 2 = 0

\* The texture has the two colours the other way round: `odd` on the even
\* cells and `even` on the odd ones.
CheckerColoursSwapped ==
  call.name = "checker" => call.res = IF CellIsEven THEN call.odd ELSE call.even

\* C30: the texture of Material::checker(scale, even, odd) is `even` where
\* floor(p.x/scale) + floor(p.y/scale) + floor(p.z/scale) is even and
\* `odd` where it is odd, for positive and negative coordinates alike.
CheckerEvenCellsAreEven ==
  call.name = "checker" => call.res = IF CellIsEven THEN call.even ELSE call.odd

\* Reached: an even cell at negative coordinates that has the colour
\* passed as odd.
CheckerSwappedWitness ==
  /\ call.name = "checker"
  /\ call.p[1] < 0 /\ call.p[2] < 0 /\ call.p[3] < 0
  /\ CellIsEven
  /\ call.res = call.odd

Init == BvhInit /\ LibIdle /\ BoxInit /\ CamIdle
Next == BvhNew \/ HitsBegin \/ HitsLeaf \/ HitsInterior \/ HitsReturn
Spec == Init /\ [][Next]_vars

====
